---- MODULE Spec2Model ----
(***************************************************************************)
(* A model of the PySCXML interpreter (src/src/scxml/interpreter.py): the  *)
(* configuration, the history memory, the internal and external queues,    *)
(* transition selection with preemption, exitStates / enterStates /        *)
(* addStatesToEnter, and the startEventLoop / mainEventLoop drivers.       *)
(* Documents are compiled state graphs; the interpreter runs one of them.  *)
(***************************************************************************)
EXTENDS Integers, Sequences, FiniteSets, TLC

VARIABLES
    doc,             \* Interpreter.doc: the compiled document being interpreted
    pc,              \* position of the interpreter thread
    configuration,   \* Interpreter.configuration (OrderedSet: a list without duplicates)
    historyValue,    \* Interpreter.historyValue (dict: history id -> list of states)
    internalQueue,   \* Interpreter.internalQueue
    externalQueue,   \* Interpreter.externalQueue
    g_continue,      \* Interpreter.g_continue
    stepLog,         \* observable firings of the most recent step, in order
    stepKind,        \* which step ran last
    exitSnapshot,    \* per state: the configuration just before its latest exit
    sent,            \* number of external events sent to the machine so far
    timers,          \* the threading.Timer objects started by delayed sends
    timer_mapping,   \* Compiler.timer_mapping (dict: send id -> timer)
    statesToInvoke,  \* Interpreter.statesToInvoke (OrderedSet)
    invokes,         \* per invoke of the document: its state, the events forwarded to
                     \* it, its error signals, and the number and the kind of the
                     \* latest of the calls invoke() and cancel() made on it
    taken,           \* number of external events taken from the external queue so far
    invokeId,        \* Interpreter.invokeId: the id under which this machine was
                     \* invoked by a parent machine, None for a machine of its own
    parentQueue,     \* the events put on dm["_parent"], the external queue of the parent
    match,           \* an event attribute of a <transition>, an event name, and the
                     \* answer of nameMatch for the two once it has been computed
    reference,       \* for a document without delayed sends and invokes: a second
                     \* machine for the same document, started with the same invoke
                     \* id, that is fed each event only when it has come to rest
    history,         \* for a document without delayed sends and invokes: the events
                     \* fed to the machine, the onentry and onexit handlers it ran
                     \* and the configurations it passed through, in order
    sm_mapping,      \* MultiSession.sm_mapping (dict: session id -> StateMachine)
    peerInternalQueue, \* the internal queue of a peer session of the MultiSession
    datamodel,       \* the <data> locations of SCXMLDocument.datamodel and their values
    visited          \* the interpreter states the inner loop of mainEventLoop has
                     \* started an iteration in since an event last arrived

vars == <<doc, pc, configuration, historyValue, internalQueue, externalQueue,
          g_continue, stepLog, stepKind, exitSnapshot, sent, timers, timer_mapping,
          statesToInvoke, invokes, taken, invokeId, parentQueue, datamodel,
          match, history, reference, visited, sm_mapping, peerInternalQueue>>

\* ------------------------------------------------------------------------
\* Bounds of the model
\* ------------------------------------------------------------------------
MaxQueue == 2
MaxEvents == 4

\* the longest event attribute and event name given to nameMatch
MaxLen == 3

\* the number of steps whose effects are kept in history
MaxTrace == 8

\* ------------------------------------------------------------------------
\* Compiled documents
\* ------------------------------------------------------------------------
None == "None"
RootId == "__main__"

Node(id, parent, kind, htype, initial) ==
    [id |-> id, parent |-> parent, kind |-> kind, htype |-> htype, initial |-> initial]

RootNode(initial) == Node(RootId, None, "state", "", initial)
State(id, parent, initial) == Node(id, parent, "state", "", initial)
Parallel(id, parent) == Node(id, parent, "parallel", "", <<>>)
Final(id, parent) == Node(id, parent, "final", "", <<>>)
History(id, parent, type) == Node(id, parent, "history", type, <<>>)

\* an <invoke> child of a state, with the content of its <finalize>
Invoke(state, invokeid, autoforward, finalize) ==
    [state |-> state, invokeid |-> invokeid, autoforward |-> autoforward,
     finalize |-> finalize]

Transition(source, event, cond, target, exe) ==
    [source |-> source, event |-> event, cond |-> cond, target |-> target, exe |-> exe]

\* executable content: <raise>, <log>, <send>, <cancel> and <assign>
\* elements; a <send> has type scxml unless it says otherwise
Exe(op, event, id, delay, target) ==
    [op |-> op, event |-> event, id |-> id, delay |-> delay, target |-> target,
     type |-> "scxml", location |-> None, expr |-> None]

Raise(name) == Exe("raise", name, None, 0, None)

Log == Exe("log", <<>>, None, 0, None)

\* <send id event delay>: delay in milliseconds, no target
SendOp(id, name, delay) == Exe("send", name, id, delay, None)

\* <send event delay target="#_internal">
SendInternal(name, delay) == Exe("send", name, None, delay, "#_internal")

\* <send event target>, sent at once
SendTo(name, target) == Exe("send", name, None, 0, target)

\* <send event type>, sent at once
SendType(name, type) == [Exe("send", name, None, 0, None) EXCEPT !.type = type]

\* <send eventexpr delay>: the name of the event is the value of an
\* expression
SendExpr(eventexpr, delay) ==
    [Exe("send", <<>>, None, delay, None) EXCEPT !.expr = eventexpr]

\* <cancel sendid>
Cancel(sendid) == Exe("cancel", <<>>, sendid, 0, None)

\* <assign location expr>
Assign(location, expr) ==
    [Exe("assign", <<>>, None, 0, None) EXCEPT !.location = location, !.expr = expr]

\* S1: a compound state toggling between two children
DocToggle ==
    [name |-> "toggle",
     nodes |-> << RootNode(<<"c">>), State("c", RootId, <<"a">>),
                  State("a", "c", <<>>), State("b", "c", <<>>) >>,
     trans |-> << Transition("a", << <<"click">> >>, "none", <<"b">>, <<Log>>),
                  Transition("b", << <<"click">> >>, "none", <<"a">>, <<Log>>) >>,
     events |-> { <<"click">> }]

\* a transition from one region of a parallel state into another region
DocCross ==
    [name |-> "cross",
     nodes |-> << RootNode(<<"p">>), Parallel("p", RootId),
                  State("r1", "p", <<"a">>), State("r2", "p", <<"c">>),
                  State("a", "r1", <<>>), State("b", "r1", <<>>),
                  State("c", "r2", <<>>), State("d", "r2", <<>>) >>,
     trans |-> << Transition("a", << <<"x">> >>, "none", <<"d">>, <<Log>>),
                  Transition("a", << <<"f">> >>, "none", <<"b">>, <<Log>>),
                  Transition("b", << <<"f">> >>, "none", <<"a">>, <<Log>>) >>,
     events |-> { <<"x">>, <<"f">> }]

\* an inner transition in one region and an outer transition on the parallel
DocPreempt ==
    [name |-> "preempt",
     nodes |-> << RootNode(<<"pp">>), State("pp", RootId, <<"p">>),
                  Parallel("p", "pp"),
                  State("r1", "p", <<"a">>), State("r2", "p", <<"c">>),
                  State("a", "r1", <<>>), State("b", "r1", <<>>),
                  State("c", "r2", <<>>), State("d", "r2", <<>>) >>,
     trans |-> << Transition("a", << <<"f">> >>, "none", <<"b">>, <<Log>>),
                  Transition("c", << <<"e">> >>, "none", <<"d">>, <<Log>>),
                  Transition("p", << <<"e">> >>, "none", <<"a">>, <<Log>>) >>,
     events |-> { <<"e">>, <<"f">> }]

\* S2: a parallel state whose regions reach their final children
DocParFinal ==
    [name |-> "parfinal",
     nodes |-> << RootNode(<<"p">>), Parallel("p", RootId),
                  State("r1", "p", <<"x">>), State("r2", "p", <<"y">>),
                  State("x", "r1", <<>>), Final("xf", "r1"),
                  State("y", "r2", <<>>), Final("yf", "r2") >>,
     trans |-> << Transition("x", << <<"go">> >>, "none", <<"xf">>, <<Log>>),
                  Transition("y", << <<"go">> >>, "none", <<"yf">>, <<Log>>),
                  Transition("x", << <<"g1">> >>, "none", <<"xf">>, <<Log>>),
                  Transition("y", << <<"g2">> >>, "none", <<"yf">>, <<Log>>) >>,
     events |-> { <<"go">>, <<"g1">>, <<"g2">> }]

HistoryTree(type) ==
    << RootNode(<<"c">>), State("c", RootId, <<"a">>), State("outside", RootId, <<>>),
       History("h", "c", type), State("a", "c", <<"a1">>), State("b", "c", <<>>),
       State("a1", "a", <<>>), State("a2", "a", <<>>) >>

HistoryTrans ==
    << Transition("h", <<>>, "none", <<"a">>, <<>>),
       Transition("c", << <<"out">> >>, "none", <<"outside">>, <<Log>>),
       Transition("outside", << <<"in">> >>, "none", <<"h">>, <<Log>>),
       Transition("a1", << <<"to_a2">> >>, "none", <<"a2">>, <<Log>>),
       Transition("a", << <<"to_b">> >>, "none", <<"b">>, <<Log>>) >>

HistoryEvents == { <<"out">>, <<"in">>, <<"to_a2">>, <<"to_b">> }

\* a compound state with a shallow history child
DocShallow ==
    [name |-> "shallow", nodes |-> HistoryTree("shallow"), trans |-> HistoryTrans,
     events |-> HistoryEvents]

\* S3: a compound state with a deep history child
DocDeep ==
    [name |-> "deep", nodes |-> HistoryTree("deep"), trans |-> HistoryTrans,
     events |-> HistoryEvents]

\* a deep and a shallow history whose parent contains a parallel state
DocDeepPar ==
    [name |-> "deeppar",
     nodes |-> << RootNode(<<"c">>), State("c", RootId, <<"p">>), State("outside", RootId, <<>>),
                  History("h", "c", "deep"), History("hs", "c", "shallow"),
                  Parallel("p", "c"),
                  State("r1", "p", <<"a">>), State("r2", "p", <<"x">>),
                  State("a", "r1", <<>>), State("b", "r1", <<>>),
                  State("x", "r2", <<>>), State("y", "r2", <<>>) >>,
     trans |-> << Transition("h", <<>>, "none", <<"p">>, <<>>),
                  Transition("hs", <<>>, "none", <<"p">>, <<>>),
                  Transition("outside", << <<"ins">> >>, "none", <<"hs">>, <<Log>>),
                  Transition("a", << <<"f">> >>, "none", <<"b">>, <<Log>>),
                  Transition("x", << <<"g">> >>, "none", <<"y">>, <<Log>>),
                  Transition("c", << <<"out">> >>, "none", <<"outside">>, <<Log>>),
                  Transition("outside", << <<"in">> >>, "none", <<"h">>, <<Log>>) >>,
     events |-> { <<"f">>, <<"g">>, <<"out">>, <<"in">>, <<"ins">> }]

\* a top-level final state reached by an external event
DocTopFinal ==
    [name |-> "topfinal",
     nodes |-> << RootNode(<<"s0">>), State("s0", RootId, <<>>), Final("fin", RootId) >>,
     trans |-> << Transition("s0", << <<"end">> >>, "none", <<"fin">>, <<Log>>),
                  Transition("s0", << <<"stay">> >>, "none", <<>>, <<Raise(<<"r">>)>>) >>,
     events |-> { <<"end">>, <<"stay">> }]

\* S4: an eventless cascade that reaches a top-level final state in the initial step
DocInitFinal ==
    [name |-> "initfinal",
     nodes |-> << RootNode(<<"s0">>), State("s0", RootId, <<>>), State("s1", RootId, <<>>),
                  Final("fin", RootId) >>,
     trans |-> << Transition("s0", <<>>, "true", <<"s1">>, <<Log>>),
                  Transition("s1", <<>>, "true", <<"fin">>, <<Log>>) >>,
     events |-> { <<"e">> }]

\* a condition whose evaluation raises, and transitions on internal events
DocErr ==
    [name |-> "err",
     nodes |-> << RootNode(<<"s0">>), State("s0", RootId, <<>>), State("s1", RootId, <<>>),
                  State("s2", RootId, <<>>) >>,
     trans |-> << Transition("s0", << <<"e">> >>, "error", <<"s1">>, <<Log>>),
                  Transition("s0", << <<"error">> >>, "none", <<"s2">>, <<Log>>),
                  Transition("s0", << <<"go">> >>, "none", <<"s1">>, <<Raise(<<"back">>)>>),
                  Transition("s1", << <<"back">> >>, "none", <<"s2">>, <<Log>>),
                  Transition("s2", <<>>, "true", <<"s0">>, <<Log>>) >>,
     events |-> { <<"e">>, <<"go">> }]

\* S5: a delayed send, a transition that cancels it, and an immediate send
DocSend ==
    [name |-> "send",
     nodes |-> << RootNode(<<"s0">>), State("s0", RootId, <<>>), State("s1", RootId, <<>>),
                  State("s2", RootId, <<>>) >>,
     trans |-> << Transition("s0", << <<"start">> >>, "none", <<>>,
                             <<SendOp("t", <<"ping">>, 100)>>),
                  Transition("s0", << <<"abort">> >>, "none", <<"s1">>, <<Cancel("t")>>),
                  Transition("s1", << <<"abort">> >>, "none", <<>>,
                             <<Cancel("t"), SendOp(None, <<"pong">>, 0)>>),
                  Transition("s0", << <<"ping">> >>, "none", <<"s2">>, <<Log>>),
                  Transition("s1", << <<"ping">> >>, "none", <<"s2">>, <<Log>>),
                  Transition("s1", << <<"pong">> >>, "none", <<"s0">>, <<Log>>) >>,
     events |-> { <<"start">>, <<"abort">> }]

\* two regions with an invoke each; the first one has autoforward set
DocInvoke ==
    [name |-> "invoke",
     nodes |-> << RootNode(<<"p">>), Parallel("p", RootId),
                  State("r1", "p", <<>>), State("r2", "p", <<>>) >>,
     trans |-> << Transition("r2", << <<"result">> >>, "none", <<>>, <<Log>>) >>,
     invoke |-> << Invoke("r1", "i1", TRUE, <<Log>>),
                   Invoke("r2", "i2", FALSE, <<Raise(<<"finalized">>)>>) >>,
     events |-> { <<"e">> }]

\* a state with an invoke that is left by an eventless transition
DocInvokePass ==
    [name |-> "invokepass",
     nodes |-> << RootNode(<<"s0">>), State("s0", RootId, <<>>), State("t", RootId, <<>>),
                  State("u", RootId, <<>>) >>,
     trans |-> << Transition("s0", << <<"go">> >>, "none", <<"t">>, <<Log>>),
                  Transition("t", <<>>, "none", <<"u">>, <<Log>>),
                  Transition("u", << <<"back">> >>, "none", <<"s0">>, <<Log>>) >>,
     invoke |-> << Invoke("t", "i3", FALSE, <<>>), Invoke("u", "i4", TRUE, <<Log>>) >>,
     events |-> { <<"go">>, <<"back">> }]

\* a delayed send to the internal queue executed in the initial step
DocLate ==
    [name |-> "late",
     nodes |-> << RootNode(<<"s0">>), State("s0", RootId, <<>>), State("s1", RootId, <<>>),
                  State("s2", RootId, <<>>) >>,
     trans |-> << Transition("s0", <<>>, "true", <<"s1">>,
                             <<SendInternal(<<"tick">>, 100)>>),
                  Transition("s1", << <<"tick">> >>, "none", <<"s2">>, <<Log>>) >>,
     events |-> { <<"go">> }]

\* two states joined by eventless transitions in both directions, entered
\* on an external event; no content raises an event
DocSpin ==
    [name |-> "spin",
     nodes |-> << RootNode(<<"s0">>), State("s0", RootId, <<>>), State("a", RootId, <<>>),
                  State("b", RootId, <<>>) >>,
     trans |-> << Transition("s0", << <<"go">> >>, "none", <<"a">>, <<Log>>),
                  Transition("a", <<>>, "true", <<"b">>, <<Log>>),
                  Transition("b", <<>>, "true", <<"a">>, <<Log>>) >>,
     events |-> { <<"go">> }]

\* a transition that is a child of the <scxml> element
DocRoot ==
    [name |-> "root",
     nodes |-> << RootNode(<<"s0">>), State("s0", RootId, <<>>), State("s1", RootId, <<>>) >>,
     trans |-> << Transition(RootId, << <<"reset">> >>, "none", <<"s1">>, <<Log>>),
                  Transition("s1", << <<"back">> >>, "none", <<"s0">>, <<Log>>) >>,
     events |-> { <<"reset">>, <<"back">> }]

\* <data id expr>
Data(id, expr) == [id |-> id, expr |-> expr]

\* assignments: to a location that is not in the data model, with an
\* expression that raises, and a successful one, each followed by a <raise>
DocAssign ==
    [name |-> "assign",
     nodes |-> << RootNode(<<"s0">>), State("s0", RootId, <<>>), State("s1", RootId, <<>>) >>,
     trans |-> << Transition("s0", << <<"miss">> >>, "none", <<"s1">>,
                             <<Assign("y", "2"), Raise(<<"after">>)>>),
                  Transition("s0", << <<"bad">> >>, "none", <<"s1">>,
                             <<Assign("x", "1/0"), Raise(<<"after">>)>>),
                  Transition("s0", << <<"set">> >>, "none", <<"s1">>,
                             <<Assign("x", "2"), Raise(<<"after">>)>>),
                  Transition("s1", << <<"after">> >>, "none", <<"s0">>, <<Log>>) >>,
     data |-> << Data("x", "1") >>,
     events |-> { <<"miss">>, <<"bad">>, <<"set">> }]

\* sends that cannot be dispatched, each followed by a <raise>: an unknown
\* type, an unknown session, an invoke id that names no invoke, and a
\* target of no known form
DocSendErr ==
    [name |-> "senderr",
     nodes |-> << RootNode(<<"s0">>), State("s0", RootId, <<>>), State("s1", RootId, <<>>) >>,
     trans |-> << Transition("s0", << <<"type">> >>, "none", <<"s1">>,
                             <<SendType(<<"e", "v">>, "bogus"), Raise(<<"after">>)>>),
                  Transition("s0", << <<"session">> >>, "none", <<"s1">>,
                             <<SendTo(<<"e", "v">>, "#_scxml_zz"), Raise(<<"after">>)>>),
                  Transition("s0", << <<"inv">> >>, "none", <<"s1">>,
                             <<SendTo(<<"e", "v">>, "#nosuch"), Raise(<<"after">>)>>),
                  Transition("s0", << <<"form">> >>, "none", <<"s1">>,
                             <<SendTo(<<"e", "v">>, "weird"), Raise(<<"after">>)>>),
                  Transition("s1", << <<"after">> >>, "none", <<"s0">>, <<Log>>) >>,
     events |-> { <<"type">>, <<"session">>, <<"inv">>, <<"form">> }]

\* sends of type scxml to the three queues, each followed by a <raise>
DocSendTo ==
    [name |-> "sendto",
     nodes |-> << RootNode(<<"s0">>), State("s0", RootId, <<>>), State("s1", RootId, <<>>) >>,
     trans |-> << Transition("s0", << <<"own">> >>, "none", <<"s1">>,
                             <<SendTo(<<"e", "v">>, None), Raise(<<"after">>)>>),
                  Transition("s0", << <<"in">> >>, "none", <<"s1">>,
                             <<SendTo(<<"e", "v">>, "#_internal"), Raise(<<"after">>)>>),
                  Transition("s0", << <<"up">> >>, "none", <<"s1">>,
                             <<SendTo(<<"e", "v">>, "#_parent"), Raise(<<"after">>)>>),
                  Transition("s1", << <<"after">> >>, "none", <<"s0">>, <<Log>>) >>,
     events |-> { <<"own">>, <<"in">>, <<"up">> }]

\* a send to the machine's own external queue: the event x it sends and the
\* event y of the host arrive in either order
DocRace ==
    [name |-> "race",
     nodes |-> << RootNode(<<"s0">>), State("s0", RootId, <<>>), State("s1", RootId, <<>>),
                  State("s2", RootId, <<>>), State("s3", RootId, <<>>) >>,
     trans |-> << Transition("s0", << <<"go">> >>, "none", <<"s1">>, <<SendTo(<<"x">>, None)>>),
                  Transition("s1", << <<"x">> >>, "none", <<"s2">>, <<Log>>),
                  Transition("s1", << <<"y">> >>, "none", <<"s3">>, <<Log>>) >>,
     events |-> { <<"go">>, <<"y">> }]

\* a state with an invoke that the machine either rests in (go) or enters
\* and leaves within one macrostep (pass)
DocInvokeTwice ==
    [name |-> "invoketwice",
     nodes |-> << RootNode(<<"s0">>), State("s0", RootId, <<>>), State("t", RootId, <<>>) >>,
     trans |-> << Transition("s0", << <<"go">> >>, "none", <<"t">>, <<Log>>),
                  Transition("s0", << <<"pass">> >>, "none", <<"t">>, <<Raise(<<"out">>)>>),
                  Transition("t", << <<"out">> >>, "none", <<"s0">>, <<Log>>),
                  Transition("t", << <<"back">> >>, "none", <<"s0">>, <<Log>>) >>,
     invoke |-> << Invoke("t", "i5", FALSE, <<>>) >>,
     events |-> { <<"go">>, <<"pass">>, <<"back">> }]

\* a shallow history whose parent c lies in a compound state w below the
\* root; w has a targetless transition for an event that its descendant a
\* handles too
DocNested ==
    [name |-> "nested",
     nodes |-> << RootNode(<<"w">>), State("w", RootId, <<"c">>),
                  State("c", "w", <<"a">>), State("outside", "w", <<>>),
                  History("h", "c", "shallow"),
                  State("a", "c", <<>>), State("b", "c", <<>>) >>,
     trans |-> << Transition("h", <<>>, "none", <<"a">>, <<>>),
                  Transition("c", << <<"out">> >>, "none", <<"outside">>, <<Log>>),
                  Transition("outside", << <<"in">> >>, "none", <<"h">>, <<Log>>),
                  Transition("a", << <<"to_b">> >>, "none", <<"b">>, <<Log>>),
                  Transition("w", << <<"to_b">> >>, "none", <<>>, <<Log>>) >>,
     events |-> { <<"out">>, <<"in">>, <<"to_b">> }]

\* two regions whose active states both have a transition for e, after f has
\* replaced the active state of the first region
DocOrder ==
    [name |-> "order",
     nodes |-> << RootNode(<<"p">>), Parallel("p", RootId),
                  State("r1", "p", <<"a">>), State("r2", "p", <<"c">>),
                  State("a", "r1", <<>>), State("b", "r1", <<>>),
                  State("c", "r2", <<>>), State("d", "r2", <<>>) >>,
     trans |-> << Transition("a", << <<"f">> >>, "none", <<"b">>, <<Log>>),
                  Transition("b", << <<"e">> >>, "none", <<"a">>, <<Log>>),
                  Transition("c", << <<"e">> >>, "none", <<"d">>, <<Log>>) >>,
     events |-> { <<"f">>, <<"e">> }]

\* a delayed send that takes the name of its event from the location x, and
\* an assignment to x
DocDelayed ==
    [name |-> "delayed",
     nodes |-> << RootNode(<<"s0">>), State("s0", RootId, <<>>), State("s1", RootId, <<>>),
                  State("s2", RootId, <<>>) >>,
     trans |-> << Transition("s0", << <<"go">> >>, "none", <<>>, <<SendExpr("x", 100)>>),
                  Transition("s0", << <<"set">> >>, "none", <<>>, <<Assign("x", "2")>>),
                  Transition("s0", << <<"1">> >>, "none", <<"s1">>, <<Log>>),
                  Transition("s0", << <<"2">> >>, "none", <<"s2">>, <<Log>>) >>,
     data |-> << Data("x", "1") >>,
     events |-> { <<"go">>, <<"set">> }]

Documents ==
    << DocToggle, DocCross, DocPreempt, DocParFinal, DocShallow,
       DocDeep, DocDeepPar, DocTopFinal, DocInitFinal, DocErr, DocSend,
       DocInvoke, DocInvokePass, DocLate, DocSpin, DocRoot,
       DocInvokeTwice, DocAssign, DocSendErr, DocSendTo, DocRace, DocNested,
       DocOrder, DocDelayed >>

\* Compiler.parseXML: the node objects of a document, each with its parent,
\* its document order index n (iter_elems, breadth first) and its lists of
\* child states, final states, history states and transitions
Compile(d) ==
    LET order == [i \in DOMAIN d.nodes |-> d.nodes[i].id]
        at(s) == d.nodes[CHOOSE i \in DOMAIN d.nodes : d.nodes[i].id = s]
        children(s, kinds) ==
            SelectSeq(order, LAMBDA c : at(c).parent = s /\ at(c).kind \in kinds)
        invoke == IF "invoke" \in DOMAIN d THEN d.invoke ELSE <<>>
        data == IF "data" \in DOMAIN d THEN d.data ELSE <<>>
    IN [name |-> d.name, events |-> d.events, trans |-> d.trans, invoke |-> invoke,
        data |-> data,
        node |-> [s \in { d.nodes[i].id : i \in DOMAIN d.nodes } |->
                    [parent |-> at(s).parent, kind |-> at(s).kind,
                     htype |-> at(s).htype, initial |-> at(s).initial,
                     n |-> (CHOOSE i \in DOMAIN d.nodes : d.nodes[i].id = s) - 1,
                     state |-> children(s, {"state", "parallel"}),
                     final |-> children(s, {"final"}),
                     history |-> children(s, {"history"}),
                     transition |-> SelectSeq([i \in DOMAIN d.trans |-> i],
                                              LAMBDA i : d.trans[i].source = s),
                     invoke |-> SelectSeq([i \in DOMAIN invoke |-> i],
                                          LAMBDA i : invoke[i].state = s)]]]

\* ------------------------------------------------------------------------
\* The state graph (node.py objects as built by Compiler.parseXML)
\* ------------------------------------------------------------------------
Ids == DOMAIN doc.node

nodeOf(s) == doc.node[s]

\* document order index assigned by iter_elems (breadth first)
n(s) == doc.node[s].n

parent(s) == doc.node[s].parent

kind(s) == doc.node[s].kind

\* SCXMLNode.state: child <state> and <parallel> elements, in document order
stateChildren(s) == doc.node[s].state

\* SCXMLNode.final
finalChildren(s) == doc.node[s].final

\* SCXMLNode.history
historyChildren(s) == doc.node[s].history

\* SCXMLNode.transition: the transitions of a node, in document order
transitionsOf(s) == doc.node[s].transition

\* SCXMLNode.invoke: the invoke wrappers of a node, in document order
invokesOf(s) == doc.node[s].invoke

\* the handlers of a state: one <onentry> and one <onexit> block per state
onentry(s) == << <<Log>> >>

onexit(s) == << <<Log>> >>

Range(seq) == { seq[i] : i \in DOMAIN seq }

\* OrderedSet.add
osAdd(seq, e) == IF e \in Range(seq) THEN seq ELSE Append(seq, e)

\* OrderedSet.delete
osDelete(seq, e) == SelectSeq(seq, LAMBDA x : x # e)

RECURSIVE getProperAncestors(_, _)
getProperAncestors(state, root) ==
    IF parent(state) # None /\ parent(state) # root
    THEN <<parent(state)>> \o getProperAncestors(parent(state), root)
    ELSE <<>>

RECURSIVE isDescendant(_, _)
isDescendant(state1, state2) ==
    IF state1 = None THEN FALSE
    ELSE parent(state1) = state2 \/ isDescendant(parent(state1), state2)

getChildStates(state) ==
    stateChildren(state) \o finalChildren(state) \o historyChildren(state)

\* str.split(sep): strings are sequences of characters
RECURSIVE split(_, _)
split(str, sep) ==
    IF \A i \in DOMAIN str : str[i] # sep THEN <<str>>
    ELSE LET i == CHOOSE i \in DOMAIN str : str[i] = sep /\ \A j \in 1..(i - 1) : str[j] # sep
         IN <<SubSeq(str, 1, i - 1)>> \o split(SubSeq(str, i + 1, Len(str)), sep)

\* an event attribute that is split without removing the .* suffix
keepWildcardSuffix(x) == x

\* re.sub(r"(.*)\.\*$", r"\1", x): a string that ends with .* loses these
\* two characters
stripWildcardSuffix(x) ==
    IF Len(x) >= 2 /\ x[Len(x) - 1] = "." /\ x[Len(x)] = "*"
    THEN SubSeq(x, 1, Len(x) - 2)
    ELSE x

\* Compiler.parseXML on the event attribute of a <transition>
parseEventAttr(attr) ==
    [i \in DOMAIN split(attr, " ") |-> split(stripWildcardSuffix(split(attr, " ")[i]), ".")]

prefixList(l1, l2) ==
    /\ Len(l1) <= Len(l2)
    /\ \A i \in 1..Len(l1) : l1[i] = l2[i]

\* nameMatch for a given spelling of the token list ["*"]
nameMatchFor(star, eventList, event) ==
    \/ star \in Range(eventList)
    \/ \E i \in DOMAIN eventList : prefixList(eventList[i], event)

\* nameMatch on compiled documents, whose tokens are strings
nameMatch(eventList, event) == nameMatchFor(<<"*">>, eventList, event)

\* nameMatch on the tokens that split returns, which are sequences of characters
nameMatchChars(eventList, event) == nameMatchFor(<< <<"*">> >>, eventList, event)

isSCXMLNode(s) == s # None /\ kind(s) \in {"state", "parallel", "final"}

isParallelState(s) == s # None /\ kind(s) = "parallel"

isFinalState(s) == s # None /\ kind(s) = "final"

isHistoryState(s) == s # None /\ kind(s) = "history"

isScxmlState(s) == parent(s) = None

isAtomicState(s) ==
    \/ isFinalState(s)
    \/ (isSCXMLNode(s) /\ stateChildren(s) = <<>> /\ finalChildren(s) = <<>>)

isCompoundState(s) ==
    isSCXMLNode(s) /\ (stateChildren(s) # <<>> \/ finalChildren(s) # <<>>)

RECURSIVE getStateDepth(_)
getStateDepth(s) == IF parent(s) = None THEN 0 ELSE 1 + getStateDepth(parent(s))

\* enterOrder with the document index descending
enterOrderLastFirst(s) == <<getStateDepth(s), 0 - n(s)>>

enterOrder(s) == <<getStateDepth(s), n(s)>>

\* exitOrder without the negated depth
exitOrderShallowFirst(s) == <<getStateDepth(s), n(s)>>

exitOrder(s) == <<0 - getStateDepth(s), n(s)>>

\* Python's ordering of the key tuples
keyLess(k1, k2) == k1[1] < k2[1] \/ (k1[1] = k2[1] /\ k1[2] < k2[2])

\* sorted(states, key=...): keys are distinct because n is
RECURSIVE sortByKey(_, _)
sortByKey(S, key) ==
    IF S = {} THEN <<>>
    ELSE LET m == CHOOSE x \in S : \A y \in S \ {x} : keyLess(key[x], key[y])
         IN <<m>> \o sortByKey(S \ {m}, key)

sortEnterOrder(S) == sortByKey(S, [s \in S |-> enterOrder(s)])

sortExitOrder(S) == sortByKey(S, [s \in S |-> exitOrder(s)])

getTargetStates(targetIds) == targetIds

\* an LCA that is always the root
findLCARoot(stateList) == RootId

findLCA(stateList) ==
    LET ancs == getProperAncestors(stateList[1], None)
        ok(anc) == \A i \in 2..Len(stateList) : isDescendant(stateList[i], anc)
        hits == { i \in DOMAIN ancs : ok(ancs[i]) }
    IN  IF hits = {} THEN None
        ELSE ancs[CHOOSE i \in hits : \A j \in hits : i <= j]

\* the LCA computed for a transition with a target
transitionLCA(t) == findLCA(<<doc.trans[t].source>> \o getTargetStates(doc.trans[t].target))

\* ------------------------------------------------------------------------
\* The interpreter.  The operators below take and return the mutable part
\* of the Interpreter object as a record m.
\* ------------------------------------------------------------------------
Event(name) == [name |-> name, invokeid |-> None]

\* an entry of the step log: a handler of state id ran, the content of
\* transition t ran, or an event was put on the internal queue
Fired(k, id) == [kind |-> k, id |-> id, t |-> 0, name |-> <<>>]

Ran(t) == [kind |-> "transition", id |-> None, t |-> t, name |-> <<>>]

Put(name) == [kind |-> "put", id |-> None, t |-> 0, name |-> name]

\* the invoke ids a machine is started with: None when it is not invoked
InvokeIds == {None, "c1"}

\* Interpreter.raiseFunction
raiseFunction(event, m) ==
    [m EXCEPT !.internalQueue = Append(@, Event(event)),
              !.log = Append(@, Put(event))]

\* Compiler.raiseError
raiseError(err, m) == raiseFunction(err, m)

\* Interpreter.send: an event for the external queue of this machine
send(name, invokeid, m) ==
    [m EXCEPT !.externalQueue = Append(@, [name |-> name, invokeid |-> invokeid])]

\* a send to the parent that ignores toQueue
sendToOwnQueue(name, invokeid, m) == send(name, invokeid, m)

\* Interpreter.send with toQueue = dm["_parent"]: the queue of the parent
\* when the machine was started with one, else ("if not toQueue") the
\* external queue of the machine itself
sendToParent(name, invokeid, m) ==
    IF m.invokeId # None
    THEN [m EXCEPT !.parentQueue = Append(@, [name |-> name, invokeid |-> invokeid])]
    ELSE send(name, invokeid, m)

\* the target forms parseSend tells apart (startswith, target[0], target[1])
\* and the part of the target after the prefix (split, target[1:]), for the
\* targets the documents use
targetForm(target) ==
    CASE target = None -> [form |-> "none", rest |-> None]
      [] target = "#_parent" -> [form |-> "parent", rest |-> None]
      [] target = "#_internal" -> [form |-> "internal", rest |-> None]
      [] target = "#_scxml_zz" -> [form |-> "session", rest |-> "zz"]
      [] target = "#nosuch" -> [form |-> "invoke", rest |-> "nosuch"]
      [] target = "#i5" -> [form |-> "invoke", rest |-> "i5"]
      [] OTHER -> [form |-> "other", rest |-> None]

\* datamodel["_sessionid"] of the machine and the StateMachine object that
\* make_session creates for it
SessionId == "s1"

StateMachine == "StateMachine(s1)"

\* MultiSession.make_session: the registry after the session of the machine
\* has been made
make_session == [k \in {SessionId} |-> StateMachine]

\* MultiSession.__iter__: "x in self" goes through the values of sm_mapping
registryHas(registry, x) == x \in { registry[k] : k \in DOMAIN registry }

\* MultiSession.__delitem__
delitem(registry, key) == [k \in (DOMAIN registry) \ {key} |-> registry[k]]

\* MultiSession.on_sm_exit for the signal of the machine
on_sm_exit(registry) ==
    IF registryHas(registry, SessionId) THEN delitem(registry, SessionId) ELSE registry

\* datamodel["_x"]["sessions"][sessionid] (MultiSession.__getitem__): the
\* session ids that do not raise KeyError
sessions == DOMAIN sm_mapping

\* the invokes that datamodel[invokeid] finds: start_invoke has stored the
\* wrapper of an invoke that was started
invokesNamed(invokeid, m) ==
    { i \in DOMAIN doc.invoke :
        doc.invoke[i].invokeid = invokeid /\ m.invokes[i].status # "pending" }

\* "inv = self.doc.datamodel[target[1:]]; inv.send(event, data)": a KeyError
\* when the data model has no such entry
sendToInvoke(invokeid, name, m) ==
    IF invokesNamed(invokeid, m) = {}
    THEN [m EXCEPT !.exception = "KeyError"]
    ELSE [m EXCEPT !.invokes[CHOOSE i \in invokesNamed(invokeid, m) : TRUE].received =
                       Append(@, name)]

\* the branches of parseSend for type scxml
deliverScxml(node, tf, m) ==
    CASE tf.form = "none" -> send(node.event, None, m)
      [] tf.form = "parent" -> sendToParent(node.event, m.invokeId, m)
      [] tf.form = "internal" -> raiseFunction(node.event, m)
      [] tf.form = "session" ->
            IF tf.rest \in sessions THEN send(node.event, None, m)
            ELSE raiseError(<<"error", "send", "target">>, m)
      [] tf.form = "invoke" -> sendToInvoke(tf.rest, node.event, m)
      [] OTHER -> raiseError(<<"error", "send", "target">>, m)

\* eval(expr, datamodel) in the expression language of the documents: the
\* literals 1 and 2, the name of a location, 1/0 and names that are not
\* defined; the result is the value, or the lowercased name of the exception
evalExpr(expr, dm) ==
    CASE expr \in {"1", "2"} -> [raised |-> None, val |-> expr]
      [] expr \in DOMAIN dm -> [raised |-> None, val |-> dm[expr]]
      [] expr = "1/0" -> [raised |-> "zerodivisionerror", val |-> None]
      [] OTHER -> [raised |-> "nameerror", val |-> None]

\* a timer record: the <send> element it will run, its state, and four
\* observations: how often its event was handed to a queue (puts), whether
\* a <cancel> naming its id ran while it was pending (revoked), the event
\* name the data model gave when the send element was executed (held) and
\* the event name that was delivered
Timer(node) ==
    [node |-> node, status |-> "pending", puts |-> 0, revoked |-> FALSE,
     held |-> None, delivered |-> None]

\* the delivery part of parseSend: the branches on the type and the target
\* of the <send>; timer is the index of the timer that runs the send, 0
\* when the send element runs it
deliverNamed(node, timer, m) ==
    IF node.type = "scxml"
    THEN deliverScxml(node, targetForm(node.target),
                      [m EXCEPT !.timers = IF timer = 0 THEN @
                                           ELSE [@ EXCEPT ![timer].puts = @ + 1,
                                                          ![timer].delivered = node.event]])
    ELSE raiseError(<<"error", "send", "type">>,
                    [m EXCEPT !.timers = IF timer = 0 THEN @
                                         ELSE [@ EXCEPT ![timer].puts = @ + 1,
                                                        ![timer].delivered = node.event]])

\* parseAttr(sendNode, "event"): the attribute event, or else the value
\* that eventexpr has in the data model when parseAttr is called
eventAttr(node, m) ==
    IF node.expr = None THEN node.event
    ELSE <<evalExpr(node.expr, m.datamodel).val>>

\* the part of parseSend after the scheduling block: the attributes are
\* parsed, an eventexpr that raises is reported and its None cannot be
\* split, and the event is dispatched
deliver(node, timer, m) ==
    IF node.expr # None /\ evalExpr(node.expr, m.datamodel).raised # None
    THEN [raiseError(<<"error", "execution", evalExpr(node.expr, m.datamodel).raised>>, m)
             EXCEPT !.exception = "AttributeError"]
    ELSE deliverNamed([node EXCEPT !.event = eventAttr(node, m)], timer, m)

\* the scheduling part of parseSend: Timer(delay, ...), timer_mapping, start
schedule(node, m) ==
    LET k == Len(m.timers) + 1
    IN [m EXCEPT !.timers = Append(@, [Timer(node) EXCEPT !.held = eventAttr(node, m)]),
                 !.timer_mapping =
                     IF node.id # None
                     THEN [x \in (DOMAIN @) \cup {node.id} |->
                              IF x = node.id THEN k ELSE @[x]]
                     ELSE @,
                 !.log = Append(@, [kind |-> "schedule", id |-> node.id, t |-> k,
                                    name |-> node.event])]

\* parseSend that schedules the timer and goes on to deliver at once
parseSendNoReturn(node, skip_delay, timer, m) ==
    IF ~skip_delay /\ node.delay # 0
    THEN deliver(node, Len(m.timers) + 1, schedule(node, m))
    ELSE deliver(node, timer, m)

\* Compiler.parseSend
parseSend(node, skip_delay, timer, m) ==
    IF ~skip_delay /\ node.delay # 0
    THEN schedule(node, m)
    ELSE deliver(node, timer, m)

\* the observation of a <cancel>: the pending timers with that id are
\* marked revoked, and the step log records the cancel
observeCancel(sendid, m) ==
    [m EXCEPT !.timers = [i \in DOMAIN @ |->
                             IF @[i].node.id = sendid /\ @[i].status = "pending"
                             THEN [@[i] EXCEPT !.revoked = TRUE] ELSE @[i]],
              !.log = Append(@, [kind |-> "cancel", id |-> sendid,
                                 t |-> IF sendid \in DOMAIN m.timer_mapping
                                       THEN m.timer_mapping[sendid] ELSE 0,
                                 name |-> <<>>])]

\* a <cancel> that reports an unknown send id as an error
cancelOrError(sendid, m) ==
    IF sendid \in DOMAIN m.timer_mapping
    THEN [m EXCEPT !.timers[m.timer_mapping[sendid]].status =
                       IF @ = "pending" THEN "cancelled" ELSE @,
                   !.timer_mapping = [x \in (DOMAIN @) \ {sendid} |-> @[x]]]
    ELSE raiseError(<<"error", "execution", "cancel">>, m)

\* the <cancel> branch of do_execute_content: Timer.cancel() stops a timer
\* that has not fired and does nothing to one that has
cancel(sendid, m) ==
    IF sendid \in DOMAIN m.timer_mapping
    THEN [m EXCEPT !.timers[m.timer_mapping[sendid]].status =
                       IF @ = "pending" THEN "cancelled" ELSE @,
                   !.timer_mapping = [x \in (DOMAIN @) \ {sendid} |-> @[x]]]
    ELSE m

\* Compiler.getExprValue on the expression of an executable element: None
\* for no expression; an exception is reported as error.execution.<kind>
\* and None is returned
getExprValueOf(expr, m) ==
    IF expr = None THEN [val |-> None, m |-> m]
    ELSE LET r == evalExpr(expr, m.datamodel)
         IN IF r.raised # None
            THEN [val |-> None, m |-> raiseError(<<"error", "execution", r.raised>>, m)]
            ELSE [val |-> r.val, m |-> m]

\* "self.doc.datamodel[location] = value"
store(location, r) ==
    [r.m EXCEPT !.datamodel = [x \in (DOMAIN @) \cup {location} |->
                                  IF x = location THEN r.val ELSE @[x]],
                !.log = Append(@, [kind |-> "assign", id |-> location, t |-> 0,
                                   name |-> <<r.val>>])]

\* an <assign> that creates the location it does not find
assignCreating(node, m) == store(node.location, getExprValueOf(node.expr, m))

\* the <assign> branch of do_execute_content
assign(node, m) ==
    IF node.location \notin DOMAIN m.datamodel
    THEN raiseError(<<"error", "execution", "nameerror">>, m)
    ELSE store(node.location, getExprValueOf(node.expr, m))

\* Compiler.setDataList: every <data id expr> of the document
RECURSIVE setDataList(_, _)
setDataList(datalist, m) ==
    IF datalist = <<>> THEN m
    ELSE LET node == Head(datalist)
             m1 == [m EXCEPT !.datamodel = [x \in (DOMAIN @) \cup {node.id} |->
                                               IF x = node.id THEN None ELSE @[x]]]
         IN setDataList(Tail(datalist),
                        IF node.expr = None THEN m1
                        ELSE [store(node.id, getExprValueOf(node.expr, m1)) EXCEPT !.log = m.log])

\* Compiler.do_execute_content
RECURSIVE do_execute_content(_, _)
do_execute_content(content, m) ==
    IF content = <<>> \/ m.exception # None THEN m
    ELSE LET node == Head(content)
         IN do_execute_content(Tail(content),
                CASE node.op = "raise" -> raiseFunction(node.event, m)
                  [] node.op = "send" -> parseSend(node, FALSE, 0, m)
                  [] node.op = "cancel" -> cancel(node.id, observeCancel(node.id, m))
                  [] node.op = "assign" -> assign(node, m)
                  [] OTHER -> m)

\* Interpreter.executeContent
executeContent(exe, m) == do_execute_content(exe, m)

\* Compiler.getExprValue on a condition: an expression that raises enqueues
\* error.execution.<kind> and yields None
getExprValue(expr, m) ==
    IF expr = "error"
    THEN [val |-> FALSE, m |-> raiseError(<<"error", "execution", "nameerror">>, m)]
    ELSE [val |-> (expr = "true"), m |-> m]

\* Interpreter.conditionMatch
conditionMatch(t, m) ==
    IF doc.trans[t].cond = "none" THEN [val |-> TRUE, m |-> m]
    ELSE getExprValue(doc.trans[t].cond, m)

\* Interpreter.isPreempted
isPreempted(s, transitionList) ==
    \E i \in DOMAIN transitionList :
        /\ doc.trans[transitionList[i]].target # <<>>
        /\ isDescendant(s, transitionLCA(transitionList[i]))

\* the inner loop "for t in s.transition" of the two select functions;
\* event = <<>> selects eventless transitions
RECURSIVE selectInNode(_, _, _)
selectInNode(ts, event, acc) ==
    IF ts = <<>> THEN acc
    ELSE LET t == Head(ts)
             ev == doc.trans[t].event
             named == IF event = <<>> THEN ev = <<>>
                      ELSE ev # <<>> /\ nameMatch(ev, event)
             c == IF named THEN conditionMatch(t, acc.m) ELSE [val |-> FALSE, m |-> acc.m]
         IN IF c.val
            THEN [enabled |-> osAdd(acc.enabled, t), m |-> c.m, done |-> TRUE]
            ELSE selectInNode(Tail(ts), event, [acc EXCEPT !.m = c.m])

\* a walk through the ancestors that does not stop at the first node with
\* an enabled transition
RECURSIVE selectInAllAncestors(_, _, _)
selectInAllAncestors(nodes, event, acc) ==
    IF nodes = <<>> THEN acc
    ELSE selectInAllAncestors(Tail(nodes), event,
                              selectInNode(transitionsOf(Head(nodes)), event, acc))

\* the loop "for s in [state] + getProperAncestors(state, None)"
RECURSIVE selectInAncestors(_, _, _)
selectInAncestors(nodes, event, acc) ==
    IF nodes = <<>> \/ acc.done THEN acc
    ELSE selectInAncestors(Tail(nodes), event,
                           selectInNode(transitionsOf(Head(nodes)), event, acc))

\* the loop "for state in atomicStates"
RECURSIVE selectInAtomic(_, _, _)
selectInAtomic(atomicStates, event, acc) ==
    IF atomicStates = <<>> THEN acc
    ELSE LET state == Head(atomicStates)
             acc1 == IF isPreempted(state, acc.enabled) THEN acc
                     ELSE selectInAncestors(<<state>> \o getProperAncestors(state, None),
                                            event, [acc EXCEPT !.done = FALSE])
         IN selectInAtomic(Tail(atomicStates), event, acc1)

\* a selection that takes no transition while further external events wait
selectTransitionsIfAlone(event, m) ==
    IF m.externalQueue # <<>>
    THEN [enabled |-> <<>>, m |-> m, done |-> FALSE]
    ELSE selectInAtomic(SelectSeq(m.configuration, isAtomicState), event,
                        [enabled |-> <<>>, m |-> m, done |-> FALSE])

\* Interpreter.selectTransitions
selectTransitions(event, m) ==
    selectInAtomic(SelectSeq(m.configuration, isAtomicState), event,
                   [enabled |-> <<>>, m |-> m, done |-> FALSE])

\* Interpreter.selectEventlessTransitions
selectEventlessTransitions(m) ==
    selectInAtomic(SelectSeq(m.configuration, isAtomicState), <<>>,
                   [enabled |-> <<>>, m |-> m, done |-> FALSE])

\* the loops "for s in statesToExit: for content in s.onexit: ...; delete(s)"
RECURSIVE runHandlers(_, _, _, _)
runHandlers(handlers, k, s, m) ==
    IF handlers = <<>> \/ m.exception # None THEN m
    ELSE runHandlers(Tail(handlers), k, s,
                     executeContent(Head(handlers), [m EXCEPT !.log = Append(@, Fired(k, s))]))

\* Interpreter.cancelInvoke: the wrapper stops the invoked process if it
\* has been started
cancelInvoke(inv, m) ==
    [m EXCEPT !.invokes[inv].status = IF @ = "running" THEN "cancelled" ELSE @,
              !.invokes[inv].calls = @ + 1,
              !.invokes[inv].last = "cancel",
              !.log = Append(@, [kind |-> "cancelinvoke", id |-> doc.invoke[inv].invokeid,
                                 t |-> inv, name |-> <<>>])]

\* the loop "for inv in s.invoke: self.cancelInvoke(inv)"
RECURSIVE cancelInvokes(_, _)
cancelInvokes(invs, m) ==
    IF invs = <<>> THEN m
    ELSE cancelInvokes(Tail(invs), cancelInvoke(Head(invs), m))

\* the rest of the loop body for s after its onexit handlers have run,
\* unless one of them raised an exception
exitAfterHandlers(s, m) ==
    IF m.exception # None THEN m
    ELSE [cancelInvokes(invokesOf(s), m) EXCEPT !.configuration = osDelete(@, s)]

RECURSIVE exitEach(_, _)
exitEach(statesToExit, m) ==
    IF statesToExit = <<>> \/ m.exception # None THEN m
    ELSE exitEach(Tail(statesToExit),
                  exitAfterHandlers(Head(statesToExit),
                      runHandlers(onexit(Head(statesToExit)), "onexit", Head(statesToExit), m)))

\* historyFilter recording the atomic descendants for every history type
historyFilterDeepOnly(h, s, config) ==
    SelectSeq(config, LAMBDA s0 : isAtomicState(s0) /\ isDescendant(s0, s))

\* the filter that exitStates records for a history state h of the exited state s
historyFilter(h, s, config) ==
    IF nodeOf(h).htype = "deep"
    THEN SelectSeq(config, LAMBDA s0 : isAtomicState(s0) /\ isDescendant(s0, s))
    ELSE SelectSeq(config, LAMBDA s0 : parent(s0) = s)

\* an exit set that does not ask whether the transition has a target
statesToExitAnyTransition(enabledTransitions, config) ==
    { s \in Range(config) :
        \E i \in DOMAIN enabledTransitions :
            isDescendant(s, transitionLCA(enabledTransitions[i])) }

\* the set of states exitStates collects for the enabled transitions
statesToExitOf(enabledTransitions, config) ==
    { s \in Range(config) :
        \E i \in DOMAIN enabledTransitions :
            /\ doc.trans[enabledTransitions[i]].target # <<>>
            /\ isDescendant(s, transitionLCA(enabledTransitions[i])) }

\* exitStates leaving statesToInvoke as it is
forgetInvokeNone(statesToExit, toInvoke) == toInvoke

\* "for s in statesToExit: self.statesToInvoke.delete(s)"
forgetInvoke(statesToExit, toInvoke) ==
    SelectSeq(toInvoke, LAMBDA s : s \notin statesToExit)

\* exitStates recording the history from the configuration that is left
\* after the states have been exited
exitStatesThenHistory(enabledTransitions, m) ==
    LET statesToExit == statesToExitOf(enabledTransitions, m.configuration)
        hs == { h \in Ids : isHistoryState(h) /\ parent(h) \in statesToExit }
        snap == [s \in (DOMAIN m.snapshot) \cup statesToExit |->
                 IF s \in statesToExit THEN Range(m.configuration) ELSE m.snapshot[s]]
        exited == exitEach(sortExitOrder(statesToExit),
                           [m EXCEPT !.snapshot = snap,
                                     !.statesToInvoke = forgetInvoke(statesToExit, @)])
    IN [exited EXCEPT !.historyValue =
           [h \in (DOMAIN m.historyValue) \cup hs |->
               IF h \in hs THEN historyFilter(h, parent(h), exited.configuration)
               ELSE m.historyValue[h]]]

\* Interpreter.exitStates
exitStates(enabledTransitions, m) ==
    LET statesToExit == statesToExitOf(enabledTransitions, m.configuration)
        sorted == sortExitOrder(statesToExit)
        hs == { h \in Ids : isHistoryState(h) /\ parent(h) \in statesToExit }
        hv == [h \in (DOMAIN m.historyValue) \cup hs |->
                 IF h \in hs THEN historyFilter(h, parent(h), m.configuration)
                 ELSE m.historyValue[h]]
        snap == [s \in (DOMAIN m.snapshot) \cup statesToExit |->
                 IF s \in statesToExit THEN Range(m.configuration) ELSE m.snapshot[s]]
    IN exitEach(sorted, [m EXCEPT !.historyValue = hv, !.snapshot = snap,
                                  !.statesToInvoke = forgetInvoke(statesToExit, @)])

\* the content of an entry of enabledTransitions; t = 0 is the transition
\* Interpreter.interpret builds from the root to its initial states
transitionExe(t) == IF t = 0 THEN <<>> ELSE doc.trans[t].exe

\* Interpreter.executeTransitionContent
RECURSIVE executeTransitionContent(_, _)
executeTransitionContent(enabledTransitions, m) ==
    IF enabledTransitions = <<>> \/ m.exception # None THEN m
    ELSE LET t == Head(enabledTransitions)
         IN executeTransitionContent(Tail(enabledTransitions),
                executeContent(transitionExe(t), [m EXCEPT !.log = Append(@, Ran(t))]))

\* "for t in s.transition: for s0 in self.getTargetStates(t.target)" of a
\* history state without a recorded value
RECURSIVE historyDefaultTargets(_)
historyDefaultTargets(ts) ==
    IF ts = <<>> THEN <<>>
    ELSE getTargetStates(doc.trans[Head(ts)].target) \o historyDefaultTargets(Tail(ts))

\* "for x in states: self.addStatesToEnter(x, root, ...)" and the body of
\* addStatesToEnter; acc holds statesToEnter and statesForDefaultEntry
RECURSIVE addStatesToEnter(_, _, _, _), addEach(_, _, _, _),
          addAncestors(_, _, _), addParallelChildren(_, _, _, _)

\* Interpreter.addStatesToEnter
addStatesToEnter(s, root, acc, hv) ==
    IF isHistoryState(s)
    THEN IF s \in DOMAIN hv
         THEN addEach(hv[s], s, acc, hv)
         ELSE addEach(historyDefaultTargets(transitionsOf(s)), s, acc, hv)
    ELSE LET acc1 == [acc EXCEPT !.enter = osAdd(@, s)]
             acc2 == IF isParallelState(s)
                     THEN addEach(getChildStates(s), s, acc1, hv)
                     ELSE IF isCompoundState(s)
                     THEN addEach(getTargetStates(nodeOf(s).initial), s,
                                  [acc1 EXCEPT !.dflt = @ \cup {s}], hv)
                     ELSE acc1
         IN addAncestors(getProperAncestors(s, root), acc2, hv)

addEach(states, root, acc, hv) ==
    IF states = <<>> THEN acc
    ELSE addEach(Tail(states), root, addStatesToEnter(Head(states), root, acc, hv), hv)

\* the loop "for anc in getProperAncestors(s, root)"
addAncestors(ancs, acc, hv) ==
    IF ancs = <<>> THEN acc
    ELSE LET anc == Head(ancs)
             acc1 == [acc EXCEPT !.enter = osAdd(@, anc)]
             acc2 == IF isParallelState(anc)
                     THEN addParallelChildren(getChildStates(anc), anc, acc1, hv)
                     ELSE acc1
         IN addAncestors(Tail(ancs), acc2, hv)

\* the loop "for pChild in getChildStates(anc)"
addParallelChildren(children, anc, acc, hv) ==
    IF children = <<>> THEN acc
    ELSE LET pChild == Head(children)
             acc1 == IF \E s2 \in Range(acc.enter) : isDescendant(s2, pChild) THEN acc
                     ELSE addStatesToEnter(pChild, anc, acc, hv)
         IN addParallelChildren(Tail(children), anc, acc1, hv)

\* isInFinalState accepting any active child of a compound state
isInFinalStateAnyChild(s, config) ==
    \E i \in DOMAIN getChildStates(s) : getChildStates(s)[i] \in Range(config)

\* Interpreter.isInFinalState
RECURSIVE isInFinalState(_, _)
isInFinalState(s, config) ==
    IF isCompoundState(s)
    THEN \E i \in DOMAIN getChildStates(s) :
            isFinalState(getChildStates(s)[i]) /\ getChildStates(s)[i] \in Range(config)
    ELSE IF isParallelState(s)
    THEN \A i \in DOMAIN getChildStates(s) : isInFinalState(getChildStates(s)[i], config)
    ELSE FALSE

\* the target list and the LCA of an entry of enabledTransitions
targetOf(t) == IF t = 0 THEN nodeOf(RootId).initial ELSE doc.trans[t].target

lcaOf(t) == IF t = 0 THEN findLCA(<<RootId>> \o getTargetStates(targetOf(0)))
            ELSE transitionLCA(t)

\* the first loop of enterStates: collect statesToEnter
RECURSIVE collectStatesToEnter(_, _, _)
collectStatesToEnter(enabledTransitions, acc, hv) ==
    IF enabledTransitions = <<>> THEN acc
    ELSE LET t == Head(enabledTransitions)
             LCA == lcaOf(t)
             acc1 == IF isParallelState(LCA)
                     THEN addEach(getChildStates(LCA), LCA, acc, hv)
                     ELSE acc
             acc2 == IF targetOf(t) # <<>>
                     THEN addEach(getTargetStates(targetOf(t)), LCA, acc1, hv)
                     ELSE acc
         IN collectStatesToEnter(Tail(enabledTransitions), acc2, hv)

\* the done events enterStates puts after entering the final state s
doneEvents(s, m) ==
    LET p == parent(s)
        grandparent == parent(p)
        m1 == [m EXCEPT !.internalQueue = Append(@, Event(<<"done", "state", p>>)),
                        !.log = Append(@, Put(<<"done", "state", p>>))]
    IN IF /\ isParallelState(grandparent)
          /\ \A i \in DOMAIN getChildStates(grandparent) :
                isInFinalState(getChildStates(grandparent)[i], m1.configuration)
       THEN [m1 EXCEPT !.internalQueue = Append(@, Event(<<"done", "state", grandparent>>)),
                       !.log = Append(@, Put(<<"done", "state", grandparent>>))]
       ELSE m1

\* "for s in statesToEnter: self.statesToInvoke.add(s)"
RECURSIVE rememberInvoke(_, _)
rememberInvoke(statesToEnter, toInvoke) ==
    IF statesToEnter = <<>> THEN toInvoke
    ELSE rememberInvoke(Tail(statesToEnter), osAdd(toInvoke, Head(statesToEnter)))

\* s.initial.exe: the documents give initial states by attribute, without content
initialExe(s) == <<>>

\* the second loop of enterStates: "for s in statesToEnter"
RECURSIVE enterEach(_, _, _)
enterEach(statesToEnter, dflt, m) ==
    IF statesToEnter = <<>> \/ m.exception # None THEN m
    ELSE LET s == Head(statesToEnter)
             m1 == [m EXCEPT !.configuration = osAdd(@, s)]
             m2 == runHandlers(onentry(s), "onentry", s, m1)
             m3 == IF s \in dflt THEN executeContent(initialExe(s), m2) ELSE m2
             m4 == IF isFinalState(s) /\ m3.exception = None THEN doneEvents(s, m3) ELSE m3
         IN enterEach(Tail(statesToEnter), dflt, m4)

\* the end of enterStates: a final child of the root is active, so the
\* event loop is told to stop
stopIfTopFinal(m) ==
    IF /\ m.exception = None
       /\ \E i \in DOMAIN m.configuration :
            isFinalState(m.configuration[i]) /\ isScxmlState(parent(m.configuration[i]))
    THEN [m EXCEPT !.g_continue = FALSE]
    ELSE m

\* enterStates after statesToEnter and statesForDefaultEntry are collected in acc
enterCollected(acc, m) ==
    IF m.exception # None THEN m ELSE
    stopIfTopFinal(enterEach(sortEnterOrder(Range(acc.enter)), acc.dflt,
                             [m EXCEPT !.statesToInvoke = rememberInvoke(acc.enter, @)]))

\* Interpreter.enterStates
enterStates(enabledTransitions, m) ==
    enterCollected(collectStatesToEnter(enabledTransitions, [enter |-> <<>>, dflt |-> {}],
                                        m.historyValue), m)

\* microstep with the transition content run before the states are exited
microstepContentFirst(enabledTransitions, m) ==
    enterStates(enabledTransitions,
        exitStates(enabledTransitions,
            executeTransitionContent(enabledTransitions, m)))

\* Interpreter.microstep
microstep(enabledTransitions, m) ==
    enterStates(enabledTransitions,
        executeTransitionContent(enabledTransitions,
            exitStates(enabledTransitions, m)))

\* the step taken for the internal event at the head of the queue: the
\* transitions selected for it, if any, are run
internalStep(sel) ==
    [complete |-> FALSE,
     m |-> IF sel.enabled # <<>> THEN microstep(sel.enabled, sel.m) ELSE sel.m]

\* the loop body after selectEventlessTransitions has returned sel
eventlessStep(sel) ==
    IF sel.enabled # <<>>
    THEN [complete |-> FALSE, m |-> microstep(sel.enabled, sel.m)]
    ELSE IF sel.m.internalQueue = <<>>
    THEN [complete |-> TRUE, m |-> sel.m]
    ELSE internalStep(selectTransitions(Head(sel.m.internalQueue).name,
                                        [sel.m EXCEPT !.internalQueue = Tail(@)]))

\* one iteration of the loop shared by startEventLoop and the inner loop
\* of mainEventLoop
loopIteration(m) == eventlessStep(selectEventlessTransitions(m))

\* Interpreter.exitInterpreter
\* the flag inFinalState of exitInterpreter: a final child of the root is
\* among the states it exits
inFinalState(config) ==
    \E i \in DOMAIN config : isFinalState(config[i]) /\ isScxmlState(parent(config[i]))

\* the end of exitInterpreter: done.invoke.<invokeId> for the parent
doneInvoke(inFinal, m) ==
    IF inFinal /\ m.invokeId # None /\ m.exception = None
    THEN [m EXCEPT !.parentQueue = Append(@, Event(<<"done", "invoke", m.invokeId>>)),
                   !.log = Append(@, [kind |-> "parentput", id |-> None, t |-> 0,
                                      name |-> <<"done", "invoke", m.invokeId>>])]
    ELSE m

exitInterpreter(m) ==
    doneInvoke(inFinalState(m.configuration),
               exitEach(sortExitOrder(Range(m.configuration)), m))

\* the name of the error signal of an invoke
invokeError(inv) == <<"error", "communication", "invoke", doc.invoke[inv].invokeid>>

\* Compiler.onInvokeSignal: an error signal is raised as a platform error
\* on the internal queue, any other signal is sent to the external queue
\* with the id of the invoke
onInvokeSignal(signal, inv, m) ==
    IF signal = "error"
    THEN raiseError(invokeError(inv), [m EXCEPT !.invokes[inv].errors = @ + 1])
    ELSE send(<<signal, "invoke", doc.invoke[inv].invokeid>>, doc.invoke[inv].invokeid, m)

\* make_invoke_wrapper.start_invoke: parseInvoke, set_invoke and inv.start
startInvoke(inv, m) ==
    [m EXCEPT !.invokes[inv].status = "running",
              !.invokes[inv].calls = @ + 1,
              !.invokes[inv].last = "start",
              !.log = Append(@, [kind |-> "invoke", id |-> doc.invoke[inv].invokeid,
                                 t |-> inv, name |-> <<>>])]

\* the loops "for state in self.statesToInvoke: for inv in state.invoke"
RECURSIVE startInvokes(_, _), invokeStates(_, _)
startInvokes(invs, m) ==
    IF invs = <<>> THEN m
    ELSE startInvokes(Tail(invs), startInvoke(Head(invs), m))

invokeStates(states, m) ==
    IF states = <<>> THEN m
    ELSE invokeStates(Tail(states), startInvokes(invokesOf(Head(states)), m))

\* Interpreter.applyFinalize: the <finalize> content of the invoke
applyFinalize(inv, event, m) ==
    do_execute_content(doc.invoke[inv].finalize,
        [m EXCEPT !.log = Append(@, [kind |-> "finalize", id |-> doc.invoke[inv].invokeid,
                                     t |-> inv, name |-> event.name])])

\* inv.send(externalEvent.name, None, 0, externalEvent.data): the event
\* reaches the invoked process
autoforward(inv, event, m) ==
    [m EXCEPT !.invokes[inv].received = Append(@, event.name),
              !.log = Append(@, [kind |-> "autoforward", id |-> doc.invoke[inv].invokeid,
                                 t |-> inv, name |-> event.name])]

\* the loops "for state in self.configuration: for inv in state.invoke" of
\* mainEventLoop
RECURSIVE forEachInvoke(_, _, _), finalizeAndForward(_, _, _)
forEachInvoke(invs, event, m) ==
    IF invs = <<>> THEN m
    ELSE LET inv == Head(invs)
             m1 == IF doc.invoke[inv].invokeid = event.invokeid
                   THEN applyFinalize(inv, event, m) ELSE m
         IN forEachInvoke(Tail(invs), event,
                          IF doc.invoke[inv].autoforward THEN autoforward(inv, event, m1)
                          ELSE m1)

finalizeAndForward(states, event, m) ==
    IF states = <<>> THEN m
    ELSE finalizeAndForward(Tail(states), event,
                            forEachInvoke(invokesOf(Head(states)), event, m))

\* ------------------------------------------------------------------------
\* The state machine
\* ------------------------------------------------------------------------
M == [configuration |-> configuration, historyValue |-> historyValue,
      internalQueue |-> internalQueue, externalQueue |-> externalQueue,
      g_continue |-> g_continue, timers |-> timers, timer_mapping |-> timer_mapping,
      statesToInvoke |-> statesToInvoke, invokes |-> invokes,
      invokeId |-> invokeId, parentQueue |-> parentQueue, datamodel |-> datamodel,
      exception |-> None, log |-> <<>>, snapshot |-> exitSnapshot]

\* where the thread of the event loop is after a step that left m: an
\* exception that no handler catches ends the thread
after(m, next) == IF m.exception # None THEN "crashed" ELSE next

\* the document has no <invoke> and no <send> with a delay
noDelayedSendsOrInvokes ==
    /\ doc.invoke = <<>>
    /\ \A t \in DOMAIN doc.trans : \A j \in DOMAIN doc.trans[t].exe :
          doc.trans[t].exe[j].op = "send" => doc.trans[t].exe[j].delay = 0

NoHistory == [inputs |-> <<>>, firings |-> <<>>, configs |-> <<>>, stopped |-> FALSE]

\* the onentry and onexit entries of a step log
firingsOf(log) ==
    [i \in DOMAIN SelectSeq(log, LAMBDA x : x.kind \in {"onentry", "onexit"}) |->
        <<SelectSeq(log, LAMBDA x : x.kind \in {"onentry", "onexit"})[i].kind,
          SelectSeq(log, LAMBDA x : x.kind \in {"onentry", "onexit"})[i].id>>]

\* history after a step that left the interpreter as m
record(h, m) ==
    IF ~noDelayedSendsOrInvokes \/ h.stopped \/ m.log = <<>> \/ Len(h.configs) >= MaxTrace
    THEN h
    ELSE [h EXCEPT !.firings = @ \o firingsOf(m.log),
                   !.configs = Append(@, m.configuration)]

\* history after the host has fed an event
feed(h, name) ==
    IF ~noDelayedSendsOrInvokes \/ h.stopped THEN h
    ELSE [h EXCEPT !.inputs = Append(@, name)]

\* ------------------------------------------------------------------------
\* The reference run: a machine for the same document that runs on its own
\* until it has come to rest each time an event is fed
\* ------------------------------------------------------------------------
Fresh ==
    [configuration |-> <<>>, historyValue |-> <<>>, internalQueue |-> <<>>,
     externalQueue |-> <<>>, g_continue |-> TRUE, timers |-> <<>>, timer_mapping |-> <<>>,
     statesToInvoke |-> <<>>, invokes |-> <<>>, invokeId |-> None, parentQueue |-> <<>>,
     datamodel |-> <<>>, exception |-> None, log |-> <<>>, snapshot |-> <<>>]

\* the interpreter record at the start of a step
clean(m) == [m EXCEPT !.log = <<>>, !.exception = None]

advance(c, m, next) == [m |-> m, h |-> record(c.h, m), pc |-> after(m, next)]

advanceLoop(c, r, done, again) == advance(c, r.m, IF r.complete THEN done ELSE again)

dequeueStep(c, sel) ==
    IF sel.enabled # <<>>
    THEN advance(c, microstep(sel.enabled, sel.m), "macrostep")
    ELSE advance(c, sel.m, "mainEventLoop")

\* one step of the reference run: interpret, an iteration of startEventLoop,
\* the start of mainEventLoop, an external event with its first microstep,
\* an iteration of the inner loop, or exitInterpreter
referenceStep(c) ==
    CASE c.pc = "new" ->
            advance(c, enterStates(<<0>>, executeTransitionContent(<<0>>,
                           setDataList(doc.data, clean(c.m)))), "startEventLoop")
      [] c.pc = "startEventLoop" ->
            advanceLoop(c, loopIteration(clean(c.m)), "started", "startEventLoop")
      [] c.pc = "started" ->
            [c EXCEPT !.m.g_continue = TRUE, !.pc = "mainEventLoop"]
      [] c.pc = "mainEventLoop" /\ ~c.m.g_continue ->
            advance(c, exitInterpreter(clean(c.m)), "exited")
      [] c.pc = "mainEventLoop" /\ c.m.g_continue /\ c.m.externalQueue # <<>> ->
            dequeueStep(c, selectTransitions(Head(c.m.externalQueue).name,
                [c.m EXCEPT !.externalQueue = Tail(@), !.statesToInvoke = <<>>,
                            !.exception = None,
                            !.log = <<[kind |-> "dequeue", id |-> None, t |-> 0,
                                       name |-> Head(c.m.externalQueue).name]>>]))
      [] c.pc = "macrostep" ->
            advanceLoop(c, loopIteration(clean(c.m)), "mainEventLoop", "macrostep")
      [] OTHER -> [c EXCEPT !.pc = "idle"]

\* enough steps for MaxTrace recorded steps and the steps without effect
\* between them
ReferenceSteps == 3 * (MaxTrace + MaxEvents) + 4

\* the reference run until it is at rest or its history is full
RECURSIVE referenceRun(_, _)
referenceRun(c, fuel) ==
    IF fuel = 0 \/ c.pc \in {"exited", "crashed", "idle"} \/ Len(c.h.configs) >= MaxTrace
    THEN c
    ELSE referenceRun(referenceStep(c), fuel - 1)

\* the reference machine is started with the invoke id of the machine
referenceStart(c, id) ==
    IF ~noDelayedSendsOrInvokes THEN c
    ELSE referenceRun([c EXCEPT !.m.invokeId = id], ReferenceSteps)

\* an event is fed to the reference machine, which then runs until at rest
referenceFeed(c, name, stopped) ==
    IF ~noDelayedSendsOrInvokes \/ stopped THEN c
    ELSE IF c.pc = "new"
    THEN [c EXCEPT !.m.externalQueue = Append(@, Event(name))]
    ELSE referenceRun([c EXCEPT !.m.externalQueue = Append(@, Event(name)),
                                !.pc = IF @ = "idle" THEN "mainEventLoop" ELSE @],
                      ReferenceSteps)

Commit(m) ==
    /\ history' = record(history, m)
    /\ configuration' = m.configuration
    /\ historyValue' = m.historyValue
    /\ internalQueue' = m.internalQueue
    /\ externalQueue' = m.externalQueue
    /\ g_continue' = m.g_continue
    /\ timers' = m.timers
    /\ timer_mapping' = m.timer_mapping
    /\ statesToInvoke' = m.statesToInvoke
    /\ invokes' = m.invokes
    /\ parentQueue' = m.parentQueue
    /\ datamodel' = m.datamodel
    /\ stepLog' = m.log
    /\ exitSnapshot' = m.snapshot

\* Interpreter.__init__ and Compiler.__init__
Init ==
    /\ doc \in { Compile(Documents[i]) : i \in DOMAIN Documents }
    /\ pc = "new"
    /\ configuration = <<>>
    /\ historyValue = <<>>
    /\ internalQueue = <<>>
    /\ externalQueue = <<>>
    /\ g_continue = TRUE
    /\ stepLog = <<>>
    /\ stepKind = "init"
    /\ exitSnapshot = <<>>
    /\ sent = 0
    /\ timers = <<>>
    /\ timer_mapping = <<>>
    /\ statesToInvoke = <<>>
    /\ invokes = [i \in DOMAIN doc.invoke |-> [status |-> "pending", received |-> <<>>, errors |-> 0,
                                             calls |-> 0, last |-> "none"]]
    /\ taken = 0
    /\ invokeId = None
    /\ parentQueue = <<>>
    /\ datamodel = <<>>
    /\ match = [attr |-> <<>>, name |-> <<>>, phase |-> "off", result |-> FALSE]
    /\ history = NoHistory
    /\ reference = [m |-> Fresh, h |-> NoHistory, pc |-> "new"]
    /\ visited = {}
    /\ sm_mapping = make_session
    /\ peerInternalQueue = <<>>

\* Interpreter.send called by the environment: an event for the external queue
Send ==
    /\ pc # "exited"
    /\ sent < MaxEvents
    /\ Len(externalQueue) < MaxQueue
    /\ \E name \in doc.events :
          /\ externalQueue' = Append(externalQueue, Event(name))
          /\ history' = feed(history, name)
          /\ reference' = referenceFeed(reference, name, history.stopped)
    /\ sent' = sent + 1
    /\ UNCHANGED <<match, doc, sm_mapping, peerInternalQueue, invokeId, pc, configuration, historyValue, internalQueue, g_continue,
                   stepLog, stepKind, exitSnapshot, timers, timer_mapping,
                   statesToInvoke, invokes, taken, parentQueue, datamodel, visited>>

\* a peer session runs <send target="#_scxml_s1">: parseSend looks the
\* session up in the MultiSession and puts the event on the external queue
\* of its machine, or raises error.send.target in the peer when the lookup
\* fails
PeerSend ==
    /\ sent < MaxEvents
    /\ Len(externalQueue) < MaxQueue
    /\ \E name \in doc.events :
          IF SessionId \in sessions
          THEN /\ externalQueue' = Append(externalQueue, Event(name))
               /\ history' = feed(history, name)
               /\ reference' = referenceFeed(reference, name, history.stopped)
               /\ UNCHANGED peerInternalQueue
          ELSE /\ peerInternalQueue' = Append(peerInternalQueue,
                                              Event(<<"error", "send", "target">>))
               /\ UNCHANGED <<externalQueue, history, reference>>
    /\ sent' = sent + 1
    /\ UNCHANGED <<match, doc, sm_mapping, invokeId, pc, configuration, historyValue,
                   internalQueue, g_continue, stepLog, stepKind, exitSnapshot, timers,
                   timer_mapping, statesToInvoke, invokes, taken, parentQueue,
                   datamodel, visited>>

\* a running invoke signals a result or a communication error to
\* Compiler.onInvokeSignal
ChildSend ==
    /\ pc # "exited"
    /\ sent < MaxEvents
    /\ Len(externalQueue) < MaxQueue
    /\ \E i \in DOMAIN invokes, signal \in {"result", "error"} :
          /\ invokes[i].status = "running"
          /\ \E m \in {onInvokeSignal(signal, i, M)} :
                /\ externalQueue' = m.externalQueue
                /\ internalQueue' = m.internalQueue
                /\ invokes' = m.invokes
                /\ visited' = IF m.internalQueue # internalQueue THEN {} ELSE visited
    /\ sent' = sent + 1
    /\ UNCHANGED <<reference, match, history, doc, sm_mapping, peerInternalQueue, invokeId, pc, configuration, historyValue, g_continue,
                   stepLog, stepKind, exitSnapshot, timers, timer_mapping,
                   statesToInvoke, taken, parentQueue, datamodel>>

\* a pending timer fires in its own thread: Timer.run calls
\* parseSend(sendNode, True)
TimerFire ==
    \E i \in DOMAIN timers :
        /\ timers[i].status = "pending"
        /\ LET m == parseSend(timers[i].node, TRUE, i,
                              [M EXCEPT !.timers[i].status = "fired"])
           IN /\ externalQueue' = m.externalQueue
              /\ internalQueue' = m.internalQueue
              /\ timers' = m.timers
              /\ parentQueue' = m.parentQueue
              /\ visited' = IF m.internalQueue # internalQueue THEN {} ELSE visited
        /\ UNCHANGED <<reference, match, history, doc, sm_mapping, peerInternalQueue, invokeId, pc, configuration, historyValue, g_continue, stepLog,
                       stepKind, exitSnapshot, sent, timer_mapping,
                       statesToInvoke, invokes, taken, datamodel>>

\* StateMachine._start (Compiler.setDatamodel with early binding) and
\* Interpreter.interpret up to the call of startEventLoop: the machine is
\* started on its own (invokeId None, no parent queue) or as the child of an
\* invoke, with the invoke id and the external queue of the parent
Interpret ==
    /\ pc = "new"
    /\ \E id \in InvokeIds :
          /\ invokeId' = id
          /\ reference' = referenceStart(reference, id)
          /\ \E m \in {enterStates(<<0>>, executeTransitionContent(<<0>>,
                            setDataList(doc.data, [M EXCEPT !.invokeId = id])))} :
                /\ Commit(m)
                /\ pc' = after(m, "startEventLoop")
    /\ stepKind' = "interpret"
    /\ UNCHANGED <<match, doc, sm_mapping, peerInternalQueue, sent, taken, visited>>

\* one iteration of the loop of Interpreter.startEventLoop
StartEventLoop ==
    /\ pc = "startEventLoop"
    /\ \E r \in {loopIteration(M)} :
          /\ Commit(r.m)
          /\ pc' = after(r.m, IF r.complete THEN "started" ELSE "startEventLoop")
    /\ stepKind' = "startEventLoop"
    /\ UNCHANGED <<reference, match, doc, sm_mapping, peerInternalQueue, invokeId, sent, taken, visited>>

\* StateMachine.start calls mainEventLoop, which first sets g_continue
MainEventLoopBegin ==
    /\ pc = "started"
    /\ pc' = "mainEventLoop"
    /\ g_continue' = TRUE
    /\ stepKind' = "begin"
    /\ stepLog' = <<>>
    /\ UNCHANGED <<reference, match, history, doc, sm_mapping, peerInternalQueue, invokeId, configuration, historyValue, internalQueue, externalQueue,
                   exitSnapshot, sent, timers, timer_mapping, statesToInvoke,
                   invokes, taken, parentQueue, datamodel, visited>>

\* the head of the outer loop of mainEventLoop: the invokes of the states
\* in statesToInvoke are started, then the thread waits for an external event
InvokeStates ==
    /\ pc = "mainEventLoop"
    /\ g_continue
    /\ Commit([invokeStates(statesToInvoke, M) EXCEPT !.statesToInvoke = <<>>])
    /\ pc' = "waiting"
    /\ stepKind' = "invoke"
    /\ UNCHANGED <<reference, match, doc, sm_mapping, peerInternalQueue, invokeId, sent, taken, visited>>

\* the rest of one iteration of the outer loop of mainEventLoop, up to the
\* first microstep
MainEventLoop ==
    /\ pc = "waiting"
    /\ externalQueue # <<>>
    /\ LET externalEvent == Head(externalQueue)
           m0 == [M EXCEPT !.externalQueue = Tail(@),
                           !.log = <<[kind |-> "dequeue", id |-> externalEvent.invokeid,
                                      t |-> 0, name |-> externalEvent.name]>>]
           m1 == IF externalEvent.invokeid # None
                 THEN finalizeAndForward(configuration, externalEvent, m0)
                 ELSE m0
           sel == selectTransitions(externalEvent.name, m1)
       IN IF sel.enabled # <<>>
          THEN \E m \in {microstep(sel.enabled, sel.m)} :
                  Commit(m) /\ pc' = after(m, "macrostep")
          ELSE Commit(sel.m) /\ pc' = "mainEventLoop"
    /\ stepKind' = "dequeue"
    /\ taken' = taken + 1
    /\ visited' = {}
    /\ UNCHANGED <<reference, match, doc, sm_mapping, peerInternalQueue, invokeId, sent>>

\* what an iteration of the inner loop of mainEventLoop depends on
loopState == <<configuration, internalQueue, historyValue>>

\* one iteration of the inner loop of mainEventLoop
MacroStep ==
    /\ pc = "macrostep"
    /\ \E r \in {loopIteration(M)} :
          /\ Commit(r.m)
          /\ pc' = after(r.m, IF r.complete THEN "mainEventLoop" ELSE "macrostep")
    /\ stepKind' = "macrostep"
    /\ visited' = visited \cup {loopState}
    /\ UNCHANGED <<reference, match, doc, sm_mapping, peerInternalQueue, invokeId, sent, taken>>

\* "some external entity has set g_continue to False": the host clears the
\* flag of a running main loop
HostStop ==
    /\ pc \in {"mainEventLoop", "waiting", "macrostep"}
    /\ g_continue
    /\ g_continue' = FALSE
    /\ history' = [history EXCEPT !.stopped = noDelayedSendsOrInvokes]
    /\ UNCHANGED <<reference, match, doc, sm_mapping, peerInternalQueue, invokeId, pc, configuration, historyValue, internalQueue,
                   externalQueue, stepLog, stepKind, exitSnapshot, sent, timers,
                   timer_mapping, statesToInvoke, invokes, taken, parentQueue,
                   datamodel, visited>>

\* the end of mainEventLoop: g_continue is false
ExitInterpreter ==
    /\ pc = "mainEventLoop"
    /\ ~g_continue
    /\ \E m \in {exitInterpreter(M)} :
          /\ Commit(m)
          /\ pc' = after(m, "exited")
    /\ sm_mapping' = IF inFinalState(configuration) THEN on_sm_exit(sm_mapping)
                     ELSE sm_mapping
    /\ stepKind' = "exit"
    /\ UNCHANGED <<reference, match, doc, peerInternalQueue, invokeId, sent, taken, visited>>

Next ==
    \/ Send
    \/ PeerSend
    \/ ChildSend
    \/ TimerFire
    \/ Interpret
    \/ StartEventLoop
    \/ MainEventLoopBegin
    \/ InvokeStates
    \/ MainEventLoop
    \/ MacroStep
    \/ HostStop
    \/ ExitInterpreter

Spec == Init /\ [][Next]_vars

\* ------------------------------------------------------------------------
\* nameMatch on its own: an event attribute with one descriptor and an event
\* name are chosen, then parsed as parseXML and Interpreter.send parse them
\* and given to nameMatch
\* ------------------------------------------------------------------------
Strings(alphabet, len) == UNION { [1..k -> alphabet] : k \in 1..len }

\* the descriptors that are tried on the event a.b.c
Examples ==
    { <<"a">>, <<"a", ".", "*">>, <<"a", ".", "b">>, <<"a", ".", "b", ".", "c">>, <<"*">>,
      <<"a", ".", "b", ".", "c", "d">>, <<"a", ".", "b", ".", "c", ".", "d">> }

Descriptors == Strings({"a", "b", ".", "*"}, MaxLen) \cup Examples

EventNames == Strings({"a", "b", "."}, MaxLen) \cup { <<"a", ".", "b", ".", "c">> }

MatchInit ==
    /\ doc = Compile(DocToggle)
    /\ pc = "new"
    /\ configuration = <<>>
    /\ historyValue = <<>>
    /\ internalQueue = <<>>
    /\ externalQueue = <<>>
    /\ g_continue = TRUE
    /\ stepLog = <<>>
    /\ stepKind = "none"
    /\ exitSnapshot = <<>>
    /\ sent = 0
    /\ timers = <<>>
    /\ timer_mapping = <<>>
    /\ statesToInvoke = <<>>
    /\ invokes = <<>>
    /\ taken = 0
    /\ invokeId = None
    /\ parentQueue = <<>>
    /\ datamodel = <<>>
    /\ history = NoHistory
    /\ reference = [m |-> Fresh, h |-> NoHistory, pc |-> "new"]
    /\ visited = {}
    /\ sm_mapping = make_session
    /\ peerInternalQueue = <<>>
    /\ \E attr \in Descriptors, name \in EventNames :
          match = [attr |-> attr, name |-> name, phase |-> "input", result |-> FALSE]

\* "nameMatch(t.event, event.name)" in selectTransitions, for t.event as
\* parseXML builds it and event.name as Interpreter.send splits it
Match ==
    /\ match.phase = "input"
    /\ match' = [match EXCEPT !.phase = "done",
                              !.result = nameMatchChars(parseEventAttr(match.attr),
                                                        split(match.name, "."))]
    /\ UNCHANGED <<doc, sm_mapping, peerInternalQueue, pc, configuration, historyValue, internalQueue, externalQueue,
                   g_continue, stepLog, stepKind, exitSnapshot, sent, timers,
                   timer_mapping, statesToInvoke, invokes, taken, invokeId,
                   parentQueue, datamodel, history, reference, visited>>

MatchNext == Match

MatchSpec == MatchInit /\ [][MatchNext]_vars

\* ------------------------------------------------------------------------
\* Properties
\* ------------------------------------------------------------------------
active == Range(configuration)

\* the Compound variant of the state graph: a <state> with children
Compound(s) == kind(s) = "state" /\ isCompoundState(s)

nonHistoryChildren(s) == { c \in Ids : parent(c) = s /\ ~isHistoryState(c) }

\* the transitions whose content ran in the most recent step
firedTransitions == { stepLog[i].t : i \in { j \in DOMAIN stepLog : stepLog[j].kind = "transition" } }

\* C1: every Compound state in the configuration has exactly one of its
\* non-history children in the configuration
C1_CompoundHasOneChild ==
    \A s \in active :
        Compound(s) => Cardinality(nonHistoryChildren(s) \cap active) = 1

\* C2: every Parallel state in the configuration has all of its non-history
\* children in the configuration
C2_ParallelHasAllChildren ==
    \A s \in active :
        isParallelState(s) => nonHistoryChildren(s) \subseteq active

\* C3: no two transitions selected for one microstep nest: the source of one
\* is never a descendant of the LCA of the other
C3_OnlyOuterSelected ==
    \A t1, t2 \in firedTransitions \ {0} :
        (t1 # t2 /\ doc.trans[t1].target # <<>> /\ doc.trans[t2].target # <<>>)
            => ~isDescendant(doc.trans[t2].source, transitionLCA(t1))

kindsAt(k) == { i \in DOMAIN stepLog : stepLog[i].kind = k }

\* C4: in every microstep all onexit handlers run before any transition
\* content, and all transition content runs before any onentry handler
C4_ExitThenContentThenEntry ==
    /\ \A i \in kindsAt("onexit") : \A j \in kindsAt("transition") \cup kindsAt("onentry") : i < j
    /\ \A i \in kindsAt("transition") : \A j \in kindsAt("onentry") : i < j

\* a microstep that ran onexit handlers, transition content and onentry handlers
C4_Witness ==
    /\ stepKind \in {"dequeue", "macrostep"}
    /\ kindsAt("onexit") # {} /\ kindsAt("transition") # {} /\ kindsAt("onentry") # {}

deeperFirst(a, b) ==
    \/ getStateDepth(a) > getStateDepth(b)
    \/ (getStateDepth(a) = getStateDepth(b) /\ n(a) < n(b))

shallowerFirst(a, b) ==
    \/ getStateDepth(a) < getStateDepth(b)
    \/ (getStateDepth(a) = getStateDepth(b) /\ n(a) < n(b))

\* C5: onexit handlers fire deeper states first and onentry handlers
\* shallower states first, ties by document index ascending
C5_ExitAndEnterOrder ==
    /\ \A i, j \in kindsAt("onexit") : i < j => deeperFirst(stepLog[i].id, stepLog[j].id)
    /\ \A i, j \in kindsAt("onentry") : i < j => shallowerFirst(stepLog[i].id, stepLog[j].id)
    /\ \A i, j \in kindsAt("onexit") : isDescendant(stepLog[i].id, stepLog[j].id) => i < j
    /\ \A i, j \in kindsAt("onentry") : isDescendant(stepLog[j].id, stepLog[i].id) => i < j

\* a microstep that exited and entered states of different and of equal depth
C5_Witness ==
    /\ \E i, j \in kindsAt("onexit") :
          getStateDepth(stepLog[i].id) # getStateDepth(stepLog[j].id)
    /\ \E i, j \in kindsAt("onexit") :
          i # j /\ getStateDepth(stepLog[i].id) = getStateDepth(stepLog[j].id)
    /\ \E i, j \in kindsAt("onentry") :
          getStateDepth(stepLog[i].id) # getStateDepth(stepLog[j].id)
    /\ \E i, j \in kindsAt("onentry") :
          i # j /\ getStateDepth(stepLog[i].id) = getStateDepth(stepLog[j].id)

\* C6: when the main loop is about to dequeue an external event, the
\* internal queue is empty and no eventless transition is enabled
C6_DrainedBeforeDequeue ==
    (pc = "mainEventLoop" /\ g_continue /\ externalQueue # <<>>)
        => /\ internalQueue = <<>>
           /\ selectEventlessTransitions(M).enabled = <<>>

\* a Final child of the root is in the configuration
TopFinalActive == \E s \in active : isFinalState(s) /\ isScxmlState(parent(s))

\* C7: once a Final child of the root has been entered, no further external
\* event is taken from the external queue
C7_NoDequeueAfterTopFinal ==
    [][TopFinalActive => Len(externalQueue') >= Len(externalQueue)]_vars

\* the steps in which a transition targeting the history state h re-enters
\* its parent, which has been exited before and is not active
reentersThrough(h) ==
    /\ parent(h) \notin active
    /\ parent(h) \in DOMAIN exitSnapshot
    /\ \E i \in DOMAIN stepLog' :
          /\ stepLog'[i].kind = "transition"
          /\ stepLog'[i].t # 0
          /\ h \in Range(doc.trans[stepLog'[i].t].target)

\* C8: re-entering through a shallow history state makes the children of
\* the parent that were active at its exit active again, each with its own
\* default entry below it
C8_ShallowHistoryRoundTrip ==
    [][\A h \in Ids :
          (isHistoryState(h) /\ nodeOf(h).htype # "deep" /\ reentersThrough(h))
            => \A c \in nonHistoryChildren(parent(h)) \cap exitSnapshot[parent(h)] :
                  /\ c \in Range(configuration')
                  /\ Compound(c) => Range(nodeOf(c).initial) \subseteq Range(configuration')
      ]_vars

\* the parent of a shallow history was exited in a non-initial child and has
\* been re-entered through the history state
C8_Witness ==
    /\ doc.name = "shallow"
    /\ \E i \in kindsAt("transition") :
          stepLog[i].t # 0 /\ "h" \in Range(doc.trans[stepLog[i].t].target)
    /\ "c" \in DOMAIN exitSnapshot
    /\ "b" \in exitSnapshot["c"]
    /\ "b" \in active

descendantsIn(s, S) == { x \in S : isDescendant(x, s) }

\* C9: re-entering through a deep history state restores exactly the states
\* that were active inside the parent at its exit
C9_DeepHistoryRoundTrip ==
    [][\A h \in Ids :
          (isHistoryState(h) /\ nodeOf(h).htype = "deep" /\ reentersThrough(h))
            => descendantsIn(parent(h), Range(configuration'))
                 = descendantsIn(parent(h), exitSnapshot[parent(h)])
      ]_vars

putsOf(name) == { i \in DOMAIN stepLog : stepLog[i].kind = "put" /\ stepLog[i].name = name }

\* the Parallel states whose children are all compound regions
regionParallels ==
    { p \in Ids : isParallelState(p) /\ \A c \in Ids : parent(c) = p => Compound(c) }

\* every region of p has a Final child in the configuration
allRegionsFinal(p) ==
    \A r \in nonHistoryChildren(p) :
        \E f \in nonHistoryChildren(r) : isFinalState(f) /\ f \in active

\* a Final child of a region of p was entered in the most recent step
finalEntered(p) ==
    \E i \in kindsAt("onentry") :
        isFinalState(stepLog[i].id) /\ parent(parent(stepLog[i].id)) = p

\* C10: done.state.<p> is put exactly once by the step in which the last
\* region of p enters a Final child, and never while a region is not final
C10_ParallelDoneOnce ==
    \A p \in regionParallels :
        /\ (finalEntered(p) /\ allRegionsFinal(p))
              => Cardinality(putsOf(<<"done", "state", p>>)) = 1
        /\ putsOf(<<"done", "state", p>>) # {} => allRegionsFinal(p)

\* the regions reached their Final children in different steps, and the
\* second one put done.state.p
C10_Witness ==
    /\ doc.name = "parfinal"
    /\ Cardinality(kindsAt("onentry")) = 1
    /\ putsOf(<<"done", "state", "p">>) # {}

\* the regions of p whose done.state event was put in the most recent step
regionsDone(p) == { r \in nonHistoryChildren(p) : putsOf(<<"done", "state", r>>) # {} }

\* C11: the done.state.<region> events of one microstep are put in document
\* order of the regions, and done.state.<p> is put after all of them
C11_DoneEventsInDocumentOrder ==
    \A p \in regionParallels :
        /\ \A r1, r2 \in regionsDone(p) :
              n(r1) < n(r2) =>
                  \A i \in putsOf(<<"done", "state", r1>>) :
                  \A j \in putsOf(<<"done", "state", r2>>) : i < j
        /\ \A r \in regionsDone(p) :
              \A i \in putsOf(<<"done", "state", r>>) :
              \A k \in putsOf(<<"done", "state", p>>) : i < k

\* one microstep entered the Final children of both regions of p
C11_Witness ==
    /\ doc.name = "parfinal"
    /\ Cardinality(regionsDone("p")) = 2
    /\ putsOf(<<"done", "state", "p">>) # {}

\* C12: a delayed send that was pending when a <cancel> naming its id ran is
\* never delivered
C12_CancelledSendNotDelivered ==
    \A i \in DOMAIN timers :
        timers[i].revoked => (timers[i].status # "fired" /\ timers[i].puts = 0)

\* the timers of the delayed sends that no <cancel> has named while pending
neverCancelled == { i \in DOMAIN timers : ~timers[i].revoked }

\* C13: the event of a delayed send that is not cancelled is handed to its
\* target once by the firing of its timer, and not when the send is executed
C13_DelayedSendDeliveredOnce ==
    \A i \in neverCancelled :
        /\ timers[i].status = "pending" => timers[i].puts = 0
        /\ timers[i].status = "fired" => timers[i].puts = 1
        /\ timers[i].status # "cancelled"

\* a delayed send has fired and its event has been taken from the queue
C13_Witness ==
    /\ \E i \in neverCancelled : timers[i].status = "fired" /\ timers[i].puts = 1
    /\ \E i \in kindsAt("transition") :
          stepLog[i].t # 0 /\ doc.trans[stepLog[i].t].event = << <<"ping">> >>

\* the send ids that the content of the document names
cancelIds ==
    UNION { { doc.trans[t].exe[i].id : i \in DOMAIN doc.trans[t].exe } :
            t \in DOMAIN doc.trans } \ {None}

\* no delayed send with this id is pending
nonePending(sendid) ==
    \A i \in DOMAIN timers : timers[i].node.id = sendid => timers[i].status # "pending"

\* what a <cancel> may touch besides the timer map
observable(m) ==
    <<m.internalQueue, m.externalQueue, m.configuration, m.historyValue, m.g_continue,
      [i \in DOMAIN m.timers |-> m.timers[i].status]>>

lateEvent(e) ==
    \/ \E t \in DOMAIN timers :
          /\ timers[t].status = "fired"
          /\ timers[t].node.target = "#_internal"
          /\ timers[t].node.event = e.name
    \/ \E i \in DOMAIN invokes : invokes[i].errors > 0 /\ e.name = invokeError(i)

\* the interpreter has returned from startEventLoop and has not yet taken
\* an event from the external queue
beforeFirstDequeue == taken = 0 /\ pc \in {"started", "mainEventLoop", "waiting"}

\* what does hold before the first dequeue: no eventless transition is
\* enabled, and the internal queue holds nothing but late events
closureCompleteBeforeFirstDequeue ==
    beforeFirstDequeue =>
        /\ selectEventlessTransitions(M).enabled = <<>>
        /\ \A i \in DOMAIN internalQueue : lateEvent(internalQueue[i])

\* C15: the initial eventless closure runs to completion before the first
\* external event is dequeued; at the first external dequeue no eventless
\* transition is enabled and the internal queue is empty
C15_ClosureBeforeFirstDequeue ==
    (beforeFirstDequeue /\ pc = "waiting" /\ externalQueue # <<>>) =>
        /\ selectEventlessTransitions(M).enabled = <<>>
        /\ internalQueue = <<>>

\* the document has content that puts an event on the internal queue
raisesInternalEvents ==
    \E t \in DOMAIN doc.trans : \E i \in DOMAIN doc.trans[t].exe :
        \/ doc.trans[t].exe[i].op = "raise"
        \/ doc.trans[t].exe[i].op = "send" /\ doc.trans[t].exe[i].target = "#_internal"

\* C16: after each external event the eventless closure terminates, for
\* every document that does not raise internal events unconditionally: the
\* inner loop of mainEventLoop never starts an iteration in an interpreter
\* state in which it has started one before for the same external event,
\* since from such a state it repeats the same iterations for ever
C16_ClosureTerminates ==
    (pc = "macrostep" /\ ~raisesInternalEvents) => loopState \notin visited

\* C17: the root state is in the configuration from the completion of the
\* initial entry until the interpreter exits, after exitInterpreter the
\* configuration is empty, and no microstep removes the root: the root's
\* exit handlers run in exitInterpreter only
C17_RootActiveWhileRunning ==
    /\ pc \notin {"new", "exited"} => RootId \in Range(configuration)
    /\ pc = "exited" => configuration = <<>>
    /\ \A i \in DOMAIN stepLog :
          (stepLog[i].kind = "onexit" /\ stepLog[i].id = RootId) => stepKind = "exit"

\* C18: for an external event whose invokeid matches an active invoke, the
\* finalize content of that invoke runs before the event is autoforwarded
\* to any invoke and before the content of any transition selected for the
\* event runs
C18_FinalizeBeforeAutoforward ==
    \A i, j \in DOMAIN stepLog :
        (stepLog[i].kind = "finalize" /\ stepLog[j].kind \in {"autoforward", "transition"})
            => i < j

\* C19: an external event is autoforwarded to an invoke only if the
\* event's invokeid equals the id of that invoke, the invoke has
\* autoforward set, and the state owning the invoke is in the
\* configuration when the event is dequeued
C19_AutoforwardOnlyToMatchingInvoke ==
    [][taken' # taken =>
          \A i \in DOMAIN stepLog' :
              stepLog'[i].kind = "autoforward" =>
                  /\ stepLog'[i].id = Head(externalQueue).invokeid
                  /\ doc.invoke[stepLog'[i].t].autoforward
                  /\ doc.invoke[stepLog'[i].t].state \in Range(configuration)]_vars

\* the invokes that the step starts
startedNow(i) == invokes[i].status # "running" /\ invokes'[i].status = "running"

\* C20: an invoke is never started inline while its owning state is being
\* entered: invokes are started only at the head of the loop of
\* mainEventLoop, just before the next external event is awaited, and only
\* for states that are in the configuration at that point, so that a state
\* entered and exited within one macrostep never has its invokes started
C20_InvokesStartedAtMacrostepBoundary ==
    [][/\ \A i \in DOMAIN invokes :
             startedNow(i) =>
                 /\ pc = "mainEventLoop" /\ pc' = "waiting"
                 /\ doc.invoke[i].state \in Range(configuration)
       /\ \A k \in DOMAIN stepLog' :
             stepLog'[k].kind = "invoke" => stepKind' = "invoke"]_vars

\* after the macrostep of go, which entered and left t, the invoke of u
\* has been started and the invoke of t has not
C20_Witness ==
    /\ doc.name = "invokepass"
    /\ pc = "waiting" /\ stepKind = "invoke" /\ taken > 0
    /\ "u" \in Range(configuration)
    /\ invokes[1].status = "pending"
    /\ invokes[2].status = "running"

\* C21: for every invoke, the calls that start it and the calls that
\* cancel it strictly alternate, beginning with a start: it is not started
\* again before it was cancelled, and it is cancelled only when it was
\* started and not yet cancelled, in a step that exits its owning state
C21_StartAndCancelAlternate ==
    [][\A i \in DOMAIN invokes :
          invokes'[i].calls # invokes[i].calls =>
              /\ invokes'[i].calls = invokes[i].calls + 1
              /\ invokes'[i].last = (IF invokes[i].last = "start" THEN "cancel" ELSE "start")
              /\ invokes'[i].last = "cancel" =>
                    \E k \in DOMAIN stepLog' :
                        stepLog'[k].kind = "onexit" /\ stepLog'[k].id = doc.invoke[i].state]_vars

\* C22: when the main loop of an invoked machine has ended, for either
\* reason (a top-level final state, or the host cleared g_continue), exactly
\* one done.invoke.<invokeId> event is on the queue of the parent, and it was
\* put there after every onexit handler of the exit had run
C22_DoneInvokeAtLoopEnd ==
    (pc = "exited" /\ invokeId # None) =>
        /\ Cardinality({k \in DOMAIN parentQueue :
                           parentQueue[k].name = <<"done", "invoke", invokeId>>}) = 1
        /\ \E k \in DOMAIN stepLog :
              /\ stepLog[k].kind = "parentput"
              /\ \A j \in DOMAIN stepLog : stepLog[j].kind = "onexit" => j < k


\* transition t starts with an <assign> to a location that is not in the
\* data model, followed by <raise> elements only
assignsAbsent(t) ==
    LET exe == doc.trans[t].exe
    IN /\ exe # <<>>
       /\ exe[1].op = "assign"
       /\ exe[1].location \notin DOMAIN datamodel
       /\ \A j \in 2..Len(exe) : exe[j].op = "raise"

\* the events the <raise> siblings after the first element of t put
siblingEvents(t) ==
    [j \in 1..(Len(doc.trans[t].exe) - 1) |-> Event(doc.trans[t].exe[j + 1].event)]

\* C23: an <assign> to a location that is absent from the data model leaves
\* the data model as it was and puts exactly one error.execution.nameerror
\* on the internal queue, and the sibling elements after it still run, in
\* order (the events they raise follow the error event)
C23_AssignToAbsentLocation ==
    [][\A t \in DOMAIN doc.trans :
          (taken' # taken /\ assignsAbsent(t)
             /\ \E k \in DOMAIN stepLog' : stepLog'[k] = Ran(t)) =>
              /\ datamodel' = datamodel
              /\ internalQueue' = internalQueue
                                    \o <<Event(<<"error", "execution", "nameerror">>)>>
                                    \o siblingEvents(t)]_vars

C23_Witness ==
    /\ doc.name = "assign"
    /\ stepKind = "dequeue"
    /\ \E k \in DOMAIN stepLog : stepLog[k] = Ran(1)
    /\ "y" \notin DOMAIN datamodel
    /\ datamodel["x"] = "1"
    /\ internalQueue = <<Event(<<"error", "execution", "nameerror">>), Event(<<"after">>)>>


\* transition t starts with an <assign> to a location of the data model
\* whose expression raises
assignFails(t) ==
    LET exe == doc.trans[t].exe
    IN /\ exe # <<>>
       /\ exe[1].op = "assign"
       /\ exe[1].location \in DOMAIN datamodel
       /\ evalExpr(exe[1].expr, datamodel).raised # None

\* C24: when the expression of an executable element raises, an
\* error.execution.<kind> event is put on the internal queue and the element
\* has no other effect: an <assign> to an existing location whose expression
\* raises leaves the value of the location as it was
C24_FailedExprHasNoOtherEffect ==
    [][\A t \in DOMAIN doc.trans :
          (taken' # taken /\ assignFails(t)
             /\ \E k \in DOMAIN stepLog' : stepLog'[k] = Ran(t)) =>
              /\ \E k \in DOMAIN internalQueue' :
                    internalQueue'[k].name =
                        <<"error", "execution", evalExpr(doc.trans[t].exe[1].expr, datamodel).raised>>
              /\ datamodel' = datamodel]_vars


\* transition t starts with a zero-delay <send> that cannot be dispatched:
\* its type is unknown, or it has type scxml and a target that names an
\* unknown session, an invoke id without an invoke, or has no known form
undispatchable(t) ==
    LET exe == doc.trans[t].exe
    IN /\ exe # <<>>
       /\ exe[1].op = "send" /\ exe[1].delay = 0
       /\ \/ exe[1].type # "scxml"
          \/ targetForm(exe[1].target).form = "other"
          \/ targetForm(exe[1].target).form = "session"
                /\ targetForm(exe[1].target).rest \notin sessions
          \/ targetForm(exe[1].target).form = "invoke"
                /\ invokesNamed(targetForm(exe[1].target).rest, M) = {}
       /\ \A j \in 2..Len(exe) : exe[j].op = "raise"

\* the error event the claim names for the <send> of t
sendError(t) ==
    IF doc.trans[t].exe[1].type # "scxml" THEN <<"error", "send", "type">>
    ELSE <<"error", "send", "target">>

\* C25: a zero-delay <send> that cannot be dispatched does not unwind the
\* macrostep and delivers nothing but its error event: error.send.type or
\* error.send.target goes on the internal queue, no other queue receives
\* an event, and the rest of the microstep completes (the siblings run and
\* the target of the transition is entered)
C25_UndispatchableSendOnlyRaisesError ==
    [][\A t \in DOMAIN doc.trans :
          (taken' # taken /\ undispatchable(t)
             /\ \E k \in DOMAIN stepLog' : stepLog'[k] = Ran(t)) =>
              /\ pc' # "crashed"
              /\ internalQueue' = internalQueue \o <<Event(sendError(t))>> \o siblingEvents(t)
              /\ externalQueue' = Tail(externalQueue)
              /\ parentQueue' = parentQueue
              /\ \A i \in DOMAIN doc.trans[t].target :
                    doc.trans[t].target[i] \in Range(configuration')]_vars


\* transition t starts with a zero-delay <send> of type scxml whose target
\* has the given form, followed by <raise> elements only
sendsTo(t, form) ==
    LET exe == doc.trans[t].exe
    IN /\ exe # <<>>
       /\ exe[1].op = "send" /\ exe[1].delay = 0 /\ exe[1].type = "scxml"
       /\ targetForm(exe[1].target).form = form
       /\ \A j \in 2..Len(exe) : exe[j].op = "raise"

\* the step takes an external event and runs the content of t
runsFirst(t) ==
    taken' # taken /\ \E k \in DOMAIN stepLog' : stepLog'[k] = Ran(t)

\* C26: a zero-delay <send> of type scxml puts exactly one event on exactly
\* one queue: without a target on the external queue of the sender, with
\* #_internal on its internal queue, and with #_parent on the external
\* queue of the parent of an invoked machine, the event carrying the invoke
\* id of the sender
C26_SendChoosesQueueByTarget ==
    [][\A t \in DOMAIN doc.trans :
          /\ (runsFirst(t) /\ sendsTo(t, "none")) =>
                /\ externalQueue' = Tail(externalQueue)
                                       \o <<[name |-> doc.trans[t].exe[1].event, invokeid |-> None]>>
                /\ internalQueue' = internalQueue \o siblingEvents(t)
                /\ parentQueue' = parentQueue
          /\ (runsFirst(t) /\ sendsTo(t, "internal")) =>
                /\ externalQueue' = Tail(externalQueue)
                /\ internalQueue' = internalQueue \o <<Event(doc.trans[t].exe[1].event)>>
                                       \o siblingEvents(t)
                /\ parentQueue' = parentQueue
          /\ (runsFirst(t) /\ sendsTo(t, "parent") /\ invokeId # None) =>
                /\ externalQueue' = Tail(externalQueue)
                /\ internalQueue' = internalQueue \o siblingEvents(t)
                /\ parentQueue' = parentQueue
                                     \o <<[name |-> doc.trans[t].exe[1].event, invokeid |-> invokeId]>>]_vars

C26_Witness ==
    /\ doc.name = "sendto"
    /\ stepKind = "dequeue"
    /\ invokeId = "c1"
    /\ \E k \in DOMAIN stepLog : stepLog[k] = Ran(3)
    /\ parentQueue = <<[name |-> <<"e", "v">>, invokeid |-> "c1"]>>
    /\ internalQueue = <<Event(<<"after">>)>>


\* the dotted token list of a string
tokens(str) == split(str, ".")

\* a descriptor with a trailing .* removed
trimmed(d) ==
    IF \E pre \in {SubSeq(d, 1, Len(d) - 2)} : Len(d) >= 2 /\ d = pre \o <<".", "*">>
    THEN SubSeq(d, 1, Len(d) - 2)
    ELSE d

\* p is a token-wise prefix of l
isTokenPrefix(p, l) == Len(p) <= Len(l) /\ SubSeq(l, 1, Len(p)) = p

\* C27 as stated: a descriptor matches an event name iff the descriptor is *
\* or its token list, with a trailing .* removed, is a token-wise prefix of
\* the token list of the event name
C27_DescriptorMatchesIffWildcardOrPrefix ==
    match.phase = "done" =>
        (match.result <=>
            \/ match.attr = <<"*">>
            \/ isTokenPrefix(tokens(trimmed(match.attr)), tokens(match.name)))

\* C27 amended: a descriptor matches an event name iff the descriptor with a
\* trailing .* removed is *, or its token list is a token-wise prefix of the
\* token list of the event name; for the event a.b.c the descriptors a, a.*,
\* a.b, a.b.c and * match and a.b.cd and a.b.c.d do not
C27_DescriptorMatches ==
    match.phase = "done" =>
        /\ match.result <=>
              \/ trimmed(match.attr) = <<"*">>
              \/ isTokenPrefix(tokens(trimmed(match.attr)), tokens(match.name))
        /\ match.name = <<"a", ".", "b", ".", "c">> /\ match.attr \in Examples =>
              (match.result <=>
                  match.attr \notin { <<"a", ".", "b", ".", "c", "d">>,
                                      <<"a", ".", "b", ".", "c", ".", "d">> })

C27_Witness ==
    /\ match.phase = "done"
    /\ match.attr = <<"a", ".", "*">>
    /\ match.name = <<"a", ".", "b", ".", "c">>
    /\ match.result


isPrefix(a, b) == Len(a) <= Len(b) /\ SubSeq(b, 1, Len(a)) = a

\* the firings and the configurations of h are the first ones of r
follows(h, r) == isPrefix(h.firings, r.firings) /\ isPrefix(h.configs, r.configs)

\* the reference run has not started, or it is the run of a machine with
\* the same invoke id that was fed the same events
sameInputs == reference.pc = "new" \/ reference.m.invokeId = invokeId

\* the document has no <send> at all
noSends ==
    \A t \in DOMAIN doc.trans : \A j \in DOMAIN doc.trans[t].exe :
        doc.trans[t].exe[j].op # "send"

\* the machine has come to rest: its thread has ended, or it waits for an
\* event that has not been fed yet, or history is full.  history only grows,
\* so the history of a state at rest contains those of the states before it
atRest ==
    \/ pc \in {"exited", "crashed"}
    \/ pc = "waiting" /\ externalQueue = <<>>
    \/ Len(history.configs) >= MaxTrace

\* C28 as stated: for a document without delayed sends or invokes, every run
\* fed a given sequence of external events passes through the configurations
\* and runs the onentry and onexit handlers of the reference run for that
\* sequence, in the same order (so any two such runs agree)
C28_RunsFedSameEventsAgree ==
    (noDelayedSendsOrInvokes /\ atRest) => (sameInputs /\ follows(history, reference.h))

\* C28 amended: the same for a document without any send and without invokes
C28_RunsWithoutSendsAgree ==
    (noDelayedSendsOrInvokes /\ noSends /\ atRest) =>
        (sameInputs /\ follows(history, reference.h))

C28_Witness ==
    /\ doc.name = "err"
    /\ ~history.stopped
    /\ Len(history.inputs) = 2
    /\ taken = 2
    /\ pc = "waiting"
    /\ Len(history.firings) > 4


\* the states whose handlers of kind k ran, in order, the <scxml> element
\* (which has no handlers of its own in a document) left out
firedBy(k) ==
    [i \in DOMAIN SelectSeq(history.firings, LAMBDA f : f[1] = k /\ f[2] # RootId) |->
        SelectSeq(history.firings, LAMBDA f : f[1] = k /\ f[2] # RootId)[i][2]]

\* the machine of S1 has been fed click three times and has taken all three
S1Done ==
    /\ doc.name = "toggle"
    /\ history.inputs = << <<"click">>, <<"click">>, <<"click">> >>
    /\ taken = 3
    /\ pc \in {"mainEventLoop", "waiting"}
    /\ ~history.stopped

\* C29 as stated: in scenario S1 (compound c with children a, the initial one, and b;
\* a -click-> b and b -click-> a) the events click, click, click make the
\* onentry handlers run in the order c, a, b, a, b and the onexit handlers
\* in the order a, b, a, b
C29_ScenarioS1 ==
    S1Done => /\ firedBy("onentry") = <<"c", "a", "b", "a", "b">>
              /\ firedBy("onexit") = <<"a", "b", "a", "b">>

\* C29 amended: in scenario S1 the events click, click, click make the
\* onentry handlers run in the order c, a, b, a, b and the onexit handlers
\* in the order a, b, a (each click exits one state)
C29_ScenarioS1ThreeExits ==
    S1Done => /\ firedBy("onentry") = <<"c", "a", "b", "a", "b">>
              /\ firedBy("onexit") = <<"a", "b", "a">>

C29_Witness ==
    /\ S1Done
    /\ firedBy("onentry") = <<"c", "a", "b", "a", "b">>
    /\ firedBy("onexit") = <<"a", "b", "a">>
    /\ configuration = <<RootId, "c", "b">>


\* the configuration the interpreter holds between two steps: after the
\* initial entry or after a microstep that ran to its end
betweenSteps ==
    pc \in {"startEventLoop", "started", "mainEventLoop", "waiting", "macrostep"}

\* C30: after the initial entry and after every microstep every non-root
\* state of the configuration has its parent in the configuration, also
\* when the transitions of one microstep have overlapping exit sets
C30_ConfigurationClosedUnderAncestors ==
    betweenSteps => \A s \in active : s # RootId => parent(s) \in active


\* the kinds of the handlers of state s that ran, in order
firingsAt(s) ==
    [i \in DOMAIN SelectSeq(history.firings, LAMBDA f : f[2] = s) |->
        SelectSeq(history.firings, LAMBDA f : f[2] = s)[i][1]]

\* C31: for every state the onentry and onexit firings alternate strictly,
\* starting with onentry: onentry runs only for a state that was not in the
\* configuration before the enter phase, also for the ancestors of a state
\* re-entered through a history state
C31_EntryAndExitAlternate ==
    \A s \in Ids : \A i \in DOMAIN firingsAt(s) :
        firingsAt(s)[i] = (IF i % 2 = 1 THEN "onentry" ELSE "onexit")


\* the transitions whose content ran in the most recent step, in the order
\* in which it ran
ranInOrder ==
    [i \in DOMAIN SelectSeq(stepLog, LAMBDA x : x.kind = "transition" /\ x.t # 0) |->
        SelectSeq(stepLog, LAMBDA x : x.kind = "transition" /\ x.t # 0)[i].t]

\* C32: the content of the transitions of a microstep runs in the document
\* order of their source states, whatever the order in which the active
\* states were entered
C32_ContentInDocumentOrder ==
    \A i, j \in DOMAIN ranInOrder :
        i < j => n(doc.trans[ranInOrder[i]].source) <= n(doc.trans[ranInOrder[j]].source)


\* transition t is named by the event (or is eventless, for event = <<>>)
\* and its condition holds
enabledFor(t, event) ==
    /\ IF event = <<>> THEN doc.trans[t].event = <<>>
       ELSE doc.trans[t].event # <<>> /\ nameMatch(doc.trans[t].event, event)
    /\ doc.trans[t].cond \in {"none", "true"}

\* the enabled transitions of node s, in document order
candidates(s, event) == SelectSeq(transitionsOf(s), LAMBDA t : enabledFor(t, event))

\* the nodes from the atomic state s outward that have an enabled transition
enabledNodes(s, event) ==
    SelectSeq(<<s>> \o getProperAncestors(s, None), LAMBDA x : candidates(x, event) # <<>>)

\* the first enabled transition of the innermost node that has one
choice(s, event) == Head(candidates(Head(enabledNodes(s, event)), event))

atomicStates == { s \in active : isAtomicState(s) }

\* what the interpreter would select in the current state for an event
selection(event) ==
    IF event = <<>> THEN selectEventlessTransitions(M).enabled
    ELSE selectTransitions(event, M).enabled

eventsToSelectFor ==
    doc.events \cup {<<>>} \cup { internalQueue[i].name : i \in DOMAIN internalQueue }

\* C33: every selected transition is, for some atomic state of the
\* configuration, the first enabled transition in document order of the
\* innermost node (the state itself or an ancestor) that has one; an atomic
\* state that no selected transition preempts contributes exactly that
\* transition, and no atomic state contributes more than one
C33_InnermostFirstTransitionPerAtomicState ==
    \A event \in eventsToSelectFor : \A selected \in {selection(event)} :
        /\ Range(selected) \subseteq
               { choice(s, event) : s \in { a \in atomicStates : enabledNodes(a, event) # <<>> } }
        /\ \A s \in atomicStates :
               (enabledNodes(s, event) # <<>> /\ ~isPreempted(s, selected))
                   => choice(s, event) \in Range(selected)
        /\ Len(selected) <= Cardinality(atomicStates)

\* in document "nested" state a is active: it and its ancestor w both have
\* a transition for to_b, and only the one of a is selected
C33_Witness ==
    /\ doc.name = "nested"
    /\ "a" \in atomicStates
    /\ Len(enabledNodes("a", <<"to_b">>)) = 2
    /\ selection(<<"to_b">>) = <<4>>


\* the states in the scope of the history state h (the children of its
\* parent for a shallow history, the atomic descendants for a deep one)
\* within the sequence config
scopeOf(h, config) ==
    SelectSeq(config, LAMBDA s : IF nodeOf(h).htype = "deep"
                                 THEN isAtomicState(s) /\ isDescendant(s, parent(h))
                                 ELSE parent(s) = parent(h))

\* the step just taken exited state s
exitedNow(s) ==
    /\ stepLog' # stepLog
    /\ \E i \in DOMAIN stepLog' : stepLog'[i].kind = "onexit" /\ stepLog'[i].id = s

\* C34: a microstep that exits the parent of a history state h sets the
\* memory of h to the states in its scope in the configuration as it was
\* before the microstep removed any state or ran any onexit handler; every
\* other microstep leaves the memory of h as it was
C34_HistoryRecordedBeforeExit ==
    [][stepKind' # "exit" =>
          \A h \in { x \in Ids : isHistoryState(x) } :
              IF exitedNow(parent(h))
              THEN /\ h \in DOMAIN historyValue'
                   /\ historyValue'[h] = scopeOf(h, configuration)
              ELSE /\ h \in DOMAIN historyValue' <=> h \in DOMAIN historyValue
                   /\ h \in DOMAIN historyValue => historyValue'[h] = historyValue[h]
      ]_vars

\* the parent c of the shallow history h has just been exited while its
\* child b was active, and h remembers b
C34_Witness ==
    /\ doc.name = "shallow"
    /\ \E i \in DOMAIN stepLog : stepLog[i].kind = "onexit" /\ stepLog[i].id = "c"
    /\ "c" \notin active
    /\ "h" \in DOMAIN historyValue
    /\ historyValue["h"] = <<"b">>


\* the step just taken was a microstep all of whose transitions are
\* targetless
targetlessMicrostep ==
    /\ stepLog' # stepLog
    /\ \E i \in DOMAIN stepLog' : stepLog'[i].kind = "transition" /\ stepLog'[i].t # 0
    /\ \A i \in DOMAIN stepLog' :
          (stepLog'[i].kind = "transition" /\ stepLog'[i].t # 0)
              => doc.trans[stepLog'[i].t].target = <<>>

\* C35: a microstep whose transitions are all targetless runs their content
\* and leaves the configuration and the history memory as they were, runs no
\* onexit and no onentry handler, cancels no invoke and changes nothing in
\* the states whose invokes are to be started
C35_TargetlessMicrostepKeepsConfiguration ==
    [][targetlessMicrostep =>
          /\ configuration' = configuration
          /\ historyValue' = historyValue
          /\ statesToInvoke' = statesToInvoke
          /\ \A i \in DOMAIN invokes : invokes'[i].status = invokes[i].status
          /\ \A i \in DOMAIN stepLog' :
                stepLog'[i].kind \notin {"onexit", "onentry", "cancelinvoke", "invoke"}
      ]_vars

\* in document "nested" the targetless transition of w has just run for
\* to_b while b was active
C35_Witness ==
    /\ doc.name = "nested"
    /\ \E i \in DOMAIN stepLog : stepLog[i] = Ran(5)
    /\ doc.trans[5].target = <<>>
    /\ "b" \in active


\* C36: the timer map holds only sends that are still pending: the entry of
\* a send is removed when its timer fires and when it is cancelled
C36_TimerMapHoldsPendingSends ==
    \A sendid \in DOMAIN timer_mapping :
        timers[timer_mapping[sendid]].status = "pending"


\* the step is taken by a thread other than the one of the event loop: a
\* timer callback, or a host or an invoke handing over an event
otherThreadStep ==
    \/ \E i \in DOMAIN timers : timers[i].status = "pending" /\ timers'[i].status = "fired"
    \/ sent' # sent

\* C37: the data model, the internal queue, the configuration and the timer
\* map are touched only by the thread of the event loop: what a timer
\* callback or a transport handler does is to enqueue on an external queue
C37_OnlyEventLoopTouchesInternalState ==
    [][otherThreadStep =>
          /\ internalQueue' = internalQueue
          /\ configuration' = configuration
          /\ timer_mapping' = timer_mapping
          /\ datamodel' = datamodel
      ]_vars


\* C38: the event a delayed send delivers has the name that the data model
\* gave when the send element was executed, whatever was assigned between
\* the scheduling and the firing
C38_DelayedSendDeliversValuesHeldAtScheduling ==
    \A i \in DOMAIN timers :
        timers[i].puts > 0 => timers[i].delivered = timers[i].held


\* C39: a <send> with target #_parent puts no event on the external queue
\* of the machine that sends it, also when the machine has no parent
C39_SendToParentNeverReachesSender ==
    [][\A t \in DOMAIN doc.trans :
          (runsFirst(t) /\ sendsTo(t, "parent")) => externalQueue' = Tail(externalQueue)
      ]_vars


\* the machine has reached a top-level final state and has exited: the exit
\* step ran the onexit handlers of a final child of the root
finishedAndExited ==
    /\ pc = "exited"
    /\ stepKind = "exit"
    /\ \E i \in DOMAIN stepLog :
          /\ stepLog[i].kind = "onexit"
          /\ isFinalState(stepLog[i].id)
          /\ isScxmlState(parent(stepLog[i].id))

\* C40: once the machine has reached a top-level final state and exited,
\* its session is no longer in the MultiSession, and a send of a peer to
\* #_scxml_<session id> raises error.send.target in the peer and puts
\* nothing on the external queue of the finished machine
C40_FinishedSessionIsRemoved ==
    [][finishedAndExited =>
          /\ SessionId \notin sessions
          /\ sent' # sent =>
                /\ externalQueue' = externalQueue
                /\ peerInternalQueue' =
                      Append(peerInternalQueue, Event(<<"error", "send", "target">>))
      ]_vars

====
